---------------------------- MODULE Spec2Model ----------------------------
(*
  A model of cinevault's request-governance layer:

    - the optimistic-concurrency guard of MovieModel.Update / UserModel.Update
      and the handlers that call them                       (SpecGuard)

  Every DB statement is one atomic step (PostgreSQL executes a single
  statement atomically); a handler is the sequence of its statements, and
  the handlers of different requests interleave between statements.
*)
EXTENDS Integers, Sequences, FiniteSets, TLC

(***************************************************************************)
(* Bounds of the model.                                                    *)
(***************************************************************************)
\* requests handled concurrently, each by a goroutine of its own
NumProcs == 2
\* the guard model's clock stops here (token expiry is compared with it)
MaxClock == 1
\* HTTP handlers the server runs in one run of the shutdown model
MaxHandlers == 2
\* the limiter model's clock: ticks per second, single ticks it may make, and
\* whole minutes it may jump
TicksPerSecond == 2
MaxTicks == 2
MaxMinutes == 4
\* requests the limiter model serves in one run
MaxRequests == 5
\* time.Now().Year() of the run
ThisYear == 2026

Procs == 1 .. NumProcs

(***************************************************************************)
(* HTTP statuses written by the response helpers.                          *)
(***************************************************************************)
\* the status of a request to which no response was written (yet)
NoStatus == 0
StatusOK == 200
StatusCreated == 201
StatusAccepted == 202
StatusUnauthorized == 401
StatusForbidden == 403
StatusNotFound == 404
StatusConflict == 409
StatusUnprocessableEntity == 422
StatusTooManyRequests == 429
StatusInternalServerError == 500

(***************************************************************************)
(* State of the guard model.                                               *)
(***************************************************************************)
VARIABLES
    movies,     \* the movies table: id -> row (a deleted id is not in the domain)
    users,      \* the users table: id -> row
    tokens,     \* the tokens table: a set of rows
    gnow,       \* time.Now() as seen by the tokens' expiry comparison
    gpc,        \* per request goroutine: the statement it is about to run
    greq,       \* per request goroutine: the request (handler, id, body)
    gloc,       \* per request goroutine: the handler's in-memory struct
    gresp,      \* per request goroutine: the status written (0: none yet)
    gupd        \* history: what the goroutine's conditional UPDATE did

guardVars == <<movies, users, tokens, gnow, gpc, greq, gloc, gresp, gupd>>

(***************************************************************************)
(* State of the shutdown model: serve, its shutdown goroutine, the HTTP    *)
(* handlers in flight and the goroutines started by app.background.        *)
(***************************************************************************)
VARIABLES
    listener,       \* "open" | "closed"
    signalled,      \* the signal delivered to the quit channel ("none": none yet)
    mainpc,         \* serve: "ListenAndServe" | "recv" | "returned"
    sgpc,           \* the shutdown goroutine's position
    lnerr,          \* what closing the listeners returned inside srv.Shutdown
    shutdownResult, \* what srv.Shutdown returned ("pending" before it returns)
    serveResult,    \* what serve returned ("pending" before it returns)
    graceElapsed,   \* the 5-second context of srv.Shutdown has expired
    hstate,         \* per HTTP handler: "idle" | "running" | "finished"
    tstate,         \* per handler, the goroutine it started with app.background
    wg,             \* app.wg's counter
    tdone,          \* history: the wg.Done calls of each background goroutine
    tpanicked,      \* history: the goroutine's fn panicked
    crashed,        \* a panic left a goroutine: the process is gone
    lateDone        \* history: a goroutine deregistered after the grace period

shutVars == <<listener, signalled, mainpc, sgpc, lnerr, shutdownResult, serveResult,
              graceElapsed, hstate, tstate, wg, tdone, tpanicked, crashed, lateDone>>

(***************************************************************************)
(* State of the authorization model: the permissions table and, per        *)
(* request goroutine, its way through authenticate and the gates of a      *)
(* route wrapped in requirePermission.                                     *)
(***************************************************************************)
VARIABLES
    aperm,      \* users_permissions: user id -> the set of permission codes
    apc,        \* per request: the middleware or handler it is about to enter
    areq,       \* per request: its Authorization header and its route's code
    auser,      \* per request: the user in the request context
    aresp,      \* per request: the responses written, in order
    ainvoked,   \* history: how often the wrapped handler was invoked
    alookup,    \* history: the results of the Permissions.GetAllForUser calls
    acred,      \* history: the Users.GetForToken calls made by authenticate
    alogin      \* the latest response of POST /v1/tokens/authentication

authVars == <<aperm, apc, areq, auser, aresp, ainvoked, alookup, acred, alogin>>

(***************************************************************************)
(* State of the rate limiter model: the clients map of rateLimit, its      *)
(* mutex, the sweep goroutine, the request goroutines and the clock.       *)
(***************************************************************************)
VARIABLES
    lnow,       \* the clock, in ticks of 1/TicksPerSecond seconds
    lfine,      \* how many single ticks the clock has made
    lenabled,   \* app.config.limiter.enabled
    mu,         \* the mutex: who holds it
    clients,    \* the clients map: ip -> [limiter, lastSeen]
    lpc,        \* per request goroutine: "idle" | "locked"
    lip,        \* per request goroutine: realip.FromRequest(r)
    spc,        \* the sweep goroutine: "Sleep" | "Lock" | "range"
    swake,      \* when the sweep goroutine's time.Sleep ends
    lburst,     \* history, per ip: the outcomes of its requests since its client
                \* was made, as long as no time has passed since
    lexcess,    \* history, per ip: the largest excess of a window of its requests
    lconform,   \* history, per ip: no window of its requests exceeded the burst
    ldenied,    \* history, per ip: one of its requests was refused
    lcreated,   \* history, per ip: how many clients were made for it
    lcount      \* history: the requests served so far

limVars == <<lnow, lfine, lenabled, mu, clients, lpc, lip, spc, swake,
             lburst, lexcess, lconform, ldenied, lcreated, lcount>>

(***************************************************************************)
(* The limiter flags the server was started with, and for comparison the   *)
(* limiters the clients would have in a registry from which nothing is     *)
(* ever deleted.                                                           *)
(***************************************************************************)
VARIABLES
    lconfig,    \* app.config.limiter: [rps, burst]
    lkept       \* history, per ip: its limiter, were its client never deleted

cfgVars == <<lconfig, lkept>>

vars == <<guardVars, shutVars, authVars, limVars, cfgVars>>

notGuard == <<shutVars, authVars, limVars, cfgVars>>
notShut == <<guardVars, authVars, limVars, cfgVars>>
notAuth == <<shutVars, limVars, cfgVars>>
notLim == <<guardVars, shutVars, authVars, cfgVars>>

(***************************************************************************)
(* internal/data: movies                                                   *)
(***************************************************************************)
\* the request body of PATCH /v1/movies/:id : a function from the supplied
\* fields to their values (a field left out is a nil pointer in the input struct)
MovieInputs ==
    { [title |-> "B"],
      [year |-> 2001],
      [runtime |-> 120, genres |-> <<"drama", "war">>],
      [title |-> "", genres |-> <<"war", "war">>] }

\* the id path parameters tried (0: rejected by readIDParam)
MovieIdParams == 0 .. 2

Unique(values) ==
    Cardinality({values[i] : i \in DOMAIN values}) = Len(values)

ValidateMovie(movie) ==
    /\ movie.title # ""
    /\ movie.year # 0
    /\ movie.year >= 1888
    /\ movie.year <= ThisYear
    /\ movie.runtime # 0
    /\ movie.runtime > 0
    /\ Len(movie.genres) >= 1
    /\ Len(movie.genres) <= 5
    /\ Unique(movie.genres)

\* MovieModel.Get: the row with this id, as a Movie struct
MovieGetFound(id) == id >= 1 /\ id \in DOMAIN movies

MovieGet(id) ==
    [ id |-> id,
      title |-> movies[id].title,
      year |-> movies[id].year,
      runtime |-> movies[id].runtime,
      genres |-> movies[id].genres,
      version |-> movies[id].version ]

\* updateMovieHandler: the supplied fields overwrite the struct read by Get
MergeMovieInput(movie, input) ==
    [ movie EXCEPT
        !.title = IF "title" \in DOMAIN input THEN input.title ELSE @,
        !.year = IF "year" \in DOMAIN input THEN input.year ELSE @,
        !.runtime = IF "runtime" \in DOMAIN input THEN input.runtime ELSE @,
        !.genres = IF "genres" \in DOMAIN input THEN input.genres ELSE @ ]

\* a bug the guard exists to exclude: the WHERE clause without the version
MovieUpdateWhereIdOnly(movie) ==
    movie.id \in DOMAIN movies

\* MovieModel.Update: WHERE id = $5 AND version = $6
MovieUpdateWhere(movie) ==
    /\ movie.id \in DOMAIN movies
    /\ movies[movie.id].version = movie.version

\* a SET clause that adds 2 to the version
MovieUpdateSetPlusTwo(row, movie) == [movie EXCEPT !.version = row.version + 2]

\* MovieModel.Update: SET title = $1, year = $2, runtime = $3, genres = $4,
\* version = version + 1
MovieUpdateSet(row, movie) ==
    [ title |-> movie.title,
      year |-> movie.year,
      runtime |-> movie.runtime,
      genres |-> movie.genres,
      version |-> row.version + 1 ]

MovieFields(row) ==
    [ title |-> row.title, year |-> row.year,
      runtime |-> row.runtime, genres |-> row.genres ]

(***************************************************************************)
(* internal/data: users and tokens                                         *)
(***************************************************************************)
ScopeActivation == "activation"
ScopeAuthentication == "authentication"
ScopePasswordReset == "password-reset"

\* a plaintext (token or password) is its text's identity and its byte length
TokenActivation1 == [text |-> "TA1", len |-> 26]
TokenReset2 == [text |-> "TP2", len |-> 26]
TokenUnknown == [text |-> "TX", len |-> 26]
TokenShort == [text |-> "TS", len |-> 10]
TokenAuth1 == [text |-> "TB1", len |-> 26]
TokenAuth2 == [text |-> "TB2", len |-> 26]
\* 26 bytes that generateToken never produces: characters outside A-Z2-7
TokenForeign == [text |-> "T!", len |-> 26]
TokenActivation3 == [text |-> "TA3", len |-> 26]
TokenAuth3 == [text |-> "TB3", len |-> 26]
TokenPlaintexts == {TokenActivation1, TokenReset2, TokenUnknown, TokenShort}

PasswordOld == [text |-> "pa55word", len |-> 8]
PasswordNew == [text |-> "n3w-pa55word", len |-> 12]
PasswordShort == [text |-> "pw", len |-> 2]
PasswordInputs == {PasswordNew, PasswordShort}

\* sha256.Sum256 of a plaintext: injective on the plaintexts of the model
Sha256(plaintext) == <<"sha256", plaintext.text>>

\* bcrypt.GenerateFromPassword: the hash Matches accepts for this password only
Bcrypt(password) == <<"bcrypt", password.text>>

ValidateTokenPlaintext(tokenPlaintext) ==
    /\ tokenPlaintext.len # 0
    /\ tokenPlaintext.len = 26

ValidatePasswordPlaintext(password) ==
    /\ password.len # 0
    /\ password.len >= 8
    /\ password.len <= 72

\* a lookup that does not compare the scope
GetForTokenRowsAnyScope(tokenScope, tokenPlaintext) ==
    { t \in tokens :
        /\ t.user_id \in DOMAIN users
        /\ t.hash = Sha256(tokenPlaintext)
        /\ t.expiry > gnow }

\* UserModel.GetForToken: the rows of users JOIN tokens that match
GetForTokenRows(tokenScope, tokenPlaintext) ==
    { t \in tokens :
        /\ t.user_id \in DOMAIN users
        /\ t.hash = Sha256(tokenPlaintext)
        /\ t.scope = tokenScope
        /\ t.expiry > gnow }

UserOfRow(id) ==
    [ id |-> id,
      name |-> users[id].name,
      email |-> users[id].email,
      hash |-> users[id].hash,
      activated |-> users[id].activated,
      version |-> users[id].version ]

\* the conditional update without its version test
UserUpdateWhereIdOnly(user) ==
    user.id \in DOMAIN users

\* UserModel.Update: WHERE id = $5 AND version = $6
UserUpdateWhere(user) ==
    /\ user.id \in DOMAIN users
    /\ users[user.id].version = user.version

\* the unique constraint users_email_key, as the UPDATE of a matched row meets it
UserUpdateDuplicateEmail(user) ==
    \E other \in DOMAIN users : other # user.id /\ users[other].email = user.email

\* a SET clause that leaves the version as it is
UserUpdateSetKeepsVersion(row, user) == [user EXCEPT !.version = row.version]

\* UserModel.Update: SET name = $1, email = $2, password_hash = $3,
\* activated = $4, version = version + 1
UserUpdateSet(row, user) ==
    [ name |-> user.name,
      email |-> user.email,
      hash |-> user.hash,
      activated |-> user.activated,
      version |-> row.version + 1 ]

UserFields(row) ==
    [ name |-> row.name, email |-> row.email,
      hash |-> row.hash, activated |-> row.activated ]

\* TokenModel.DeleteAllForUser: DELETE FROM tokens WHERE scope = $1 AND user_id = $2
DeleteAllForUser(scope, userID) ==
    { t \in tokens : ~(t.scope = scope /\ t.user_id = userID) }

(***************************************************************************)
(* The guard model: request goroutines running the handlers that write.    *)
(* A handler's steps are its DB statements; what it does between two       *)
(* statements touches only its own request and is part of the step.        *)
(***************************************************************************)
NoReq == [handler |-> "none"]
NoLoc == [id |-> 0]
NoUpd == [done |-> FALSE]

InitMovie ==
    [ title |-> "A", year |-> 1999, runtime |-> 100,
      genres |-> <<"drama">>, version |-> 1 ]

\* user 1 has registered (an activation token was issued); user 2 has been
\* activated (its activation tokens are deleted, version 2) and has asked for a
\* password reset.  The tokens table also holds one unexpired row of scope
\* authentication per user: rows as TokenModel.New writes them for that scope.
InitUsers ==
    (1 :> [ name |-> "alice", email |-> "alice@example.com",
            hash |-> Bcrypt(PasswordOld), activated |-> FALSE, version |-> 1 ])
    @@
    (2 :> [ name |-> "bob", email |-> "bob@example.com",
            hash |-> Bcrypt(PasswordOld), activated |-> TRUE, version |-> 2 ])

InitTokens ==
    { [ hash |-> Sha256(TokenActivation1), user_id |-> 1,
        expiry |-> MaxClock, scope |-> ScopeActivation ],
      [ hash |-> Sha256(TokenReset2), user_id |-> 2,
        expiry |-> MaxClock, scope |-> ScopePasswordReset ],
      [ hash |-> Sha256(TokenAuth1), user_id |-> 1,
        expiry |-> MaxClock, scope |-> ScopeAuthentication ],
      [ hash |-> Sha256(TokenAuth2), user_id |-> 2,
        expiry |-> MaxClock, scope |-> ScopeAuthentication ] }

GuardInit ==
    /\ movies = [id \in 1 .. 2 |-> InitMovie]
    /\ users = InitUsers
    /\ tokens = InitTokens
    /\ gnow = 0
    /\ gpc = [p \in Procs |-> "idle"]
    /\ greq = [p \in Procs |-> NoReq]
    /\ gloc = [p \in Procs |-> NoLoc]
    /\ gresp = [p \in Procs |-> 0]
    /\ gupd = [p \in Procs |-> NoUpd]

\* the server accepts a request and starts its handler in goroutine p
Accept(p, req) ==
    /\ gpc[p] = "idle"
    /\ greq' = [greq EXCEPT ![p] = req]

\* the handler writes its response and returns
Respond(p, status) ==
    /\ gresp' = [gresp EXCEPT ![p] = status]
    /\ gpc' = [gpc EXCEPT ![p] = "done"]

\* time passes
GuardTick ==
    /\ gnow < MaxClock
    /\ gnow' = gnow + 1
    /\ UNCHANGED <<movies, users, tokens, gpc, greq, gloc, gresp, gupd>>
    /\ UNCHANGED notGuard

(************************* updateMovieHandler ******************************)
\* readIDParam, Movies.Get, readJSON, the merge of the input and ValidateMovie
updateMovieHandler_Get(p, id, input) ==
    /\ Accept(p, [handler |-> "updateMovie", id |-> id, input |-> input])
    /\ \/ /\ id >= 1
          /\ Respond(p, StatusInternalServerError)
          /\ UNCHANGED gloc
       \/ IF ~MovieGetFound(id)
          THEN /\ Respond(p, StatusNotFound)
               /\ UNCHANGED gloc
          ELSE LET movie == MergeMovieInput(MovieGet(id), input)
               IN  IF ~ValidateMovie(movie)
                   THEN /\ Respond(p, StatusUnprocessableEntity)
                        /\ UNCHANGED gloc
                   ELSE /\ gloc' = [gloc EXCEPT ![p] = movie]
                        /\ gpc' = [gpc EXCEPT ![p] = "movie.Update"]
                        /\ UNCHANGED gresp
    /\ UNCHANGED <<movies, users, tokens, gnow, gupd>>
    /\ UNCHANGED notGuard

\* Movies.Update and the response
updateMovieHandler_Update(p) ==
    /\ gpc[p] = "movie.Update"
    /\ LET movie == gloc[p]
           stored == IF movie.id \in DOMAIN movies THEN movies[movie.id].version ELSE 0
           rec == [ done |-> TRUE, table |-> "movies", id |-> movie.id,
                    expected |-> movie.version, stored |-> stored ]
       IN  \/ \* the statement fails (deadline, connection): default branch
              /\ Respond(p, StatusInternalServerError)
              /\ gupd' = [gupd EXCEPT ![p] = rec @@ [outcome |-> "error"]]
              /\ UNCHANGED <<movies, gloc>>
           \/ IF MovieUpdateWhere(movie)
              THEN LET row == MovieUpdateSet(movies[movie.id], movie)
                   IN  /\ movies' = [movies EXCEPT ![movie.id] = row]
                       /\ gloc' = [gloc EXCEPT ![p].version = row.version]
                       /\ gupd' = [gupd EXCEPT ![p] = rec @@
                                     [ outcome |-> "ok",
                                       returned |-> row.version,
                                       before |-> MovieFields(movies[movie.id]),
                                       after |-> MovieFields(row) ]]
                       /\ Respond(p, StatusOK)
              ELSE \* sql.ErrNoRows: ErrEditConflict
                   /\ Respond(p, StatusConflict)
                   /\ gupd' = [gupd EXCEPT ![p] = rec @@ [outcome |-> "conflict"]]
                   /\ UNCHANGED <<movies, gloc>>
    /\ UNCHANGED <<users, tokens, gnow, greq>>
    /\ UNCHANGED notGuard

(************************* deleteMovieHandler ******************************)
\* readIDParam, Movies.Delete and the response
deleteMovieHandler(p, id) ==
    /\ Accept(p, [handler |-> "deleteMovie", id |-> id])
    /\ \/ /\ id >= 1
          /\ Respond(p, StatusInternalServerError)
          /\ UNCHANGED movies
       \/ IF MovieGetFound(id)
          THEN /\ movies' = [i \in DOMAIN movies \ {id} |-> movies[i]]
               /\ Respond(p, StatusOK)
          ELSE /\ Respond(p, StatusNotFound)
               /\ UNCHANGED movies
    /\ UNCHANGED <<users, tokens, gnow, gloc, gupd>>
    /\ UNCHANGED notGuard

(************************* the users' handlers *****************************)
\* UserModel.Update as both handlers call it: the statement, its history record,
\* and the handler's switch on the error
UserUpdateStep(p, next) ==
    LET user == gloc[p]
        stored == IF user.id \in DOMAIN users THEN users[user.id].version ELSE 0
        rec == [ done |-> TRUE, table |-> "users", id |-> user.id,
                 expected |-> user.version, stored |-> stored ]
    IN  \/ /\ Respond(p, StatusInternalServerError)
           /\ gupd' = [gupd EXCEPT ![p] = rec @@ [outcome |-> "error"]]
           /\ UNCHANGED <<users, gloc>>
        \/ CASE UserUpdateWhere(user) /\ UserUpdateDuplicateEmail(user) ->
                  \* ErrDuplicateEmail: the handlers' default branch
                  /\ Respond(p, StatusInternalServerError)
                  /\ gupd' = [gupd EXCEPT ![p] = rec @@ [outcome |-> "duplicate"]]
                  /\ UNCHANGED <<users, gloc>>
             [] UserUpdateWhere(user) /\ ~UserUpdateDuplicateEmail(user) ->
                  LET row == UserUpdateSet(users[user.id], user)
                  IN  /\ users' = [users EXCEPT ![user.id] = row]
                      /\ gloc' = [gloc EXCEPT ![p].version = row.version]
                      /\ gupd' = [gupd EXCEPT ![p] = rec @@
                                    [ outcome |-> "ok",
                                      returned |-> row.version,
                                      before |-> UserFields(users[user.id]),
                                      after |-> UserFields(row) ]]
                      /\ gpc' = [gpc EXCEPT ![p] = next]
                      /\ UNCHANGED gresp
             [] OTHER ->
                  \* sql.ErrNoRows: ErrEditConflict
                  /\ Respond(p, StatusConflict)
                  /\ gupd' = [gupd EXCEPT ![p] = rec @@ [outcome |-> "conflict"]]
                  /\ UNCHANGED <<users, gloc>>

\* Users.GetForToken as both handlers call it, with the fields the handler
\* sets in the struct it got
GetForTokenStep(p, scope, token, change, next) ==
    \/ /\ Respond(p, StatusInternalServerError)
       /\ UNCHANGED gloc
    \/ LET rows == GetForTokenRows(scope, token)
       IN  IF rows = {}
           THEN \* ErrRecordNotFound: "invalid or expired ... token"
                /\ Respond(p, StatusUnprocessableEntity)
                /\ UNCHANGED gloc
           ELSE /\ \E t \in rows : gloc' = [gloc EXCEPT ![p] = change @@ UserOfRow(t.user_id)]
                /\ gpc' = [gpc EXCEPT ![p] = next]
                /\ UNCHANGED gresp

\* Tokens.DeleteAllForUser and the final response of both handlers
DeleteTokensStep(p, scope) ==
    \/ /\ Respond(p, StatusInternalServerError)
       /\ UNCHANGED tokens
    \/ /\ tokens' = DeleteAllForUser(scope, gloc[p].id)
       /\ Respond(p, StatusOK)

\* user.Activated = true
SetActivated == [activated |-> TRUE]

\* user.Password.Set(input.Password)
SetPassword(password) == [hash |-> Bcrypt(password)]

\* readJSON, ValidateTokenPlaintext, Users.GetForToken, user.Activated = true
activateUserHandler_GetForToken(p, token) ==
    /\ Accept(p, [handler |-> "activateUser", token |-> token])
    /\ IF ~ValidateTokenPlaintext(token)
       THEN /\ Respond(p, StatusUnprocessableEntity)
            /\ UNCHANGED gloc
       ELSE GetForTokenStep(p, ScopeActivation, token, SetActivated, "activate.Update")
    /\ UNCHANGED <<movies, users, tokens, gnow, gupd>>
    /\ UNCHANGED notGuard

activateUserHandler_Update(p) ==
    /\ gpc[p] = "activate.Update"
    /\ UserUpdateStep(p, "activate.DeleteAllForUser")
    /\ UNCHANGED <<movies, tokens, gnow, greq>>
    /\ UNCHANGED notGuard

activateUserHandler_DeleteAllForUser(p) ==
    /\ gpc[p] = "activate.DeleteAllForUser"
    /\ DeleteTokensStep(p, ScopeActivation)
    /\ UNCHANGED <<movies, users, gnow, greq, gloc, gupd>>
    /\ UNCHANGED notGuard

\* readJSON, ValidatePasswordPlaintext, ValidateTokenPlaintext,
\* Users.GetForToken and user.Password.Set
updateUserPasswordHandler_GetForToken(p, password, token) ==
    /\ Accept(p, [handler |-> "updateUserPassword", password |-> password, token |-> token])
    /\ IF ~(ValidatePasswordPlaintext(password) /\ ValidateTokenPlaintext(token))
       THEN /\ Respond(p, StatusUnprocessableEntity)
            /\ UNCHANGED gloc
       ELSE GetForTokenStep(p, ScopePasswordReset, token, SetPassword(password),
                            "password.Update")
    /\ UNCHANGED <<movies, users, tokens, gnow, gupd>>
    /\ UNCHANGED notGuard

updateUserPasswordHandler_Update(p) ==
    /\ gpc[p] = "password.Update"
    /\ UserUpdateStep(p, "password.DeleteAllForUser")
    /\ UNCHANGED <<movies, tokens, gnow, greq>>
    /\ UNCHANGED notGuard

updateUserPasswordHandler_DeleteAllForUser(p) ==
    /\ gpc[p] = "password.DeleteAllForUser"
    /\ DeleteTokensStep(p, ScopePasswordReset)
    /\ UNCHANGED <<movies, users, gnow, greq, gloc, gupd>>
    /\ UNCHANGED notGuard

GuardNext ==
    \/ GuardTick
    \/ \E p \in Procs :
        \/ \E id \in MovieIdParams, input \in MovieInputs : updateMovieHandler_Get(p, id, input)
        \/ updateMovieHandler_Update(p)
        \/ \E id \in MovieIdParams : deleteMovieHandler(p, id)
        \/ \E token \in TokenPlaintexts : activateUserHandler_GetForToken(p, token)
        \/ activateUserHandler_Update(p)
        \/ activateUserHandler_DeleteAllForUser(p)
        \/ \E password \in PasswordInputs, token \in TokenPlaintexts :
               updateUserPasswordHandler_GetForToken(p, password, token)
        \/ updateUserPasswordHandler_Update(p)
        \/ updateUserPasswordHandler_DeleteAllForUser(p)


(***************************************************************************)
(* The shutdown model: cmd/api/server.go and app.background.               *)
(***************************************************************************)
Handlers == 1 .. MaxHandlers

ShutInit ==
    /\ listener = "open"
    /\ signalled = "none"
    /\ mainpc = "ListenAndServe"
    /\ sgpc = "quit"
    /\ lnerr = "nil"
    /\ shutdownResult = "pending"
    /\ serveResult = "pending"
    /\ graceElapsed = FALSE
    /\ hstate = [h \in Handlers |-> "idle"]
    /\ tstate = [h \in Handlers |-> "none"]
    /\ wg = 0
    /\ tdone = [h \in Handlers |-> 0]
    /\ tpanicked = [h \in Handlers |-> FALSE]
    /\ crashed = FALSE
    /\ lateDone = FALSE

\* a panic that leaves a goroutine ends the process
Running == ~crashed

(****************************** HTTP handlers ******************************)
\* the server accepts a connection and starts a handler
HandlerAccept(h) ==
    /\ Running
    /\ mainpc = "ListenAndServe" /\ listener = "open"
    /\ hstate[h] = "idle"
    /\ hstate' = [hstate EXCEPT ![h] = "running"]
    /\ UNCHANGED <<listener, signalled, mainpc, sgpc, lnerr, shutdownResult, serveResult,
                   graceElapsed, tstate, wg, tdone, tpanicked, crashed, lateDone>>
    /\ UNCHANGED notShut

\* a background that starts the goroutine without registering it
wgAddNone(n) == n

\* wg.Add(1) of app.background
wgAdd(n) == n + 1

\* app.background(fn) called by a handler: wg.Add(1), then the go statement
background(h) ==
    /\ Running
    /\ hstate[h] = "running"
    /\ tstate[h] = "none"
    /\ wg' = wgAdd(wg)
    /\ tstate' = [tstate EXCEPT ![h] = "fn"]
    /\ UNCHANGED <<listener, signalled, mainpc, sgpc, lnerr, shutdownResult, serveResult,
                   graceElapsed, hstate, tdone, tpanicked, crashed, lateDone>>
    /\ UNCHANGED notShut

\* the handler writes its response and returns
HandlerReturn(h) ==
    /\ Running
    /\ hstate[h] = "running"
    /\ hstate' = [hstate EXCEPT ![h] = "finished"]
    /\ UNCHANGED <<listener, signalled, mainpc, sgpc, lnerr, shutdownResult, serveResult,
                   graceElapsed, tstate, wg, tdone, tpanicked, crashed, lateDone>>
    /\ UNCHANGED notShut

InFlight == {h \in Handlers : hstate[h] = "running"}

(*********************** the background goroutine **************************)
\* fn() returns: the deferred calls run
backgroundFnReturns(h) ==
    /\ Running
    /\ tstate[h] = "fn"
    /\ tstate' = [tstate EXCEPT ![h] = "defer.recover"]
    /\ UNCHANGED <<listener, signalled, mainpc, sgpc, lnerr, shutdownResult, serveResult,
                   graceElapsed, hstate, wg, tdone, tpanicked, crashed, lateDone>>
    /\ UNCHANGED notShut

\* fn() panics: the deferred calls run with the panic pending
backgroundFnPanics(h) ==
    /\ Running
    /\ tstate[h] = "fn"
    /\ tstate' = [tstate EXCEPT ![h] = "defer.recover"]
    /\ tpanicked' = [tpanicked EXCEPT ![h] = TRUE]
    /\ UNCHANGED <<listener, signalled, mainpc, sgpc, lnerr, shutdownResult, serveResult,
                   graceElapsed, hstate, wg, tdone, crashed, lateDone>>
    /\ UNCHANGED notShut

\* a goroutine whose deferred wg.Done is missing on the panic path
AfterRecoverNoDone(panicking) == IF panicking THEN "exited" ELSE "defer.Done"

\* the deferred calls run last-in first-out: the recover closure, then wg.Done
AfterRecover(panicking) == "defer.Done"

\* the deferred closure: recover() stops a pending panic and logs it
backgroundRecover(h) ==
    /\ Running
    /\ tstate[h] = "defer.recover"
    /\ tstate' = [tstate EXCEPT ![h] = AfterRecover(tpanicked[h])]
    /\ UNCHANGED <<listener, signalled, mainpc, sgpc, lnerr, shutdownResult, serveResult,
                   graceElapsed, hstate, wg, tdone, tpanicked, crashed, lateDone>>
    /\ UNCHANGED notShut

\* wg.Done()
wgDone(n) == n - 1

\* a deferred closure that does not call recover(): the panic stays pending
PendingWithoutRecover(panicking) == panicking

\* recover() in the deferred closure ends the panic: none is pending afterwards
PendingAfterRecover(panicking) == FALSE

\* the deferred app.wg.Done(), and the goroutine ends
backgroundDone(h) ==
    /\ Running
    /\ tstate[h] = "defer.Done"
    /\ wg' = wgDone(wg)
    /\ tdone' = [tdone EXCEPT ![h] = @ + 1]
    /\ tstate' = [tstate EXCEPT ![h] = "exited"]
    /\ lateDone' = (lateDone \/ graceElapsed)
    /\ crashed' = PendingAfterRecover(tpanicked[h])
    /\ UNCHANGED <<listener, signalled, mainpc, sgpc, lnerr, shutdownResult, serveResult,
                   graceElapsed, hstate, tpanicked>>
    /\ UNCHANGED notShut

(********************************* serve ***********************************)
\* SIGINT or SIGTERM reaches the quit channel (buffered, capacity 1)
Signal(s) ==
    /\ Running
    /\ signalled = "none"
    /\ signalled' = s
    /\ UNCHANGED <<listener, mainpc, sgpc, lnerr, shutdownResult, serveResult,
                   graceElapsed, hstate, tstate, wg, tdone, tpanicked, crashed, lateDone>>
    /\ UNCHANGED notShut

\* s := <-quit
serveQuit ==
    /\ Running
    /\ sgpc = "quit"
    /\ signalled # "none"
    /\ sgpc' = "Shutdown"
    /\ UNCHANGED <<listener, signalled, mainpc, lnerr, shutdownResult, serveResult,
                   graceElapsed, hstate, tstate, wg, tdone, tpanicked, crashed, lateDone>>
    /\ UNCHANGED notShut

\* srv.Shutdown(ctx) closes the listeners first; the close may return an error
ShutdownCloseListeners(e) ==
    /\ Running
    /\ sgpc = "Shutdown"
    /\ listener' = "closed"
    /\ lnerr' = e
    /\ sgpc' = "Shutdown.poll"
    /\ UNCHANGED <<signalled, mainpc, shutdownResult, serveResult,
                   graceElapsed, hstate, tstate, wg, tdone, tpanicked, crashed, lateDone>>
    /\ UNCHANGED notShut

\* the 5-second context of srv.Shutdown expires
GraceElapses ==
    /\ Running
    /\ sgpc \notin {"quit", "Shutdown"}
    /\ ~graceElapsed
    /\ graceElapsed' = TRUE
    /\ UNCHANGED <<listener, signalled, mainpc, sgpc, lnerr, shutdownResult, serveResult,
                   hstate, tstate, wg, tdone, tpanicked, crashed, lateDone>>
    /\ UNCHANGED notShut

\* if err != nil { shutdownError <- err }
AfterShutdown(err) == IF err # "nil" THEN "send.err" ELSE "wg.Wait"

\* srv.Shutdown returns: the listeners' error once no handler is in flight,
\* ctx.Err() when the context is done while handlers are in flight
ShutdownReturns ==
    /\ Running
    /\ sgpc = "Shutdown.poll"
    /\ \/ /\ InFlight = {}
          /\ shutdownResult' = lnerr
       \/ /\ InFlight # {}
          /\ graceElapsed
          /\ shutdownResult' = "context deadline exceeded"
    /\ sgpc' = AfterShutdown(shutdownResult')
    /\ UNCHANGED <<listener, signalled, mainpc, lnerr, serveResult,
                   graceElapsed, hstate, tstate, wg, tdone, tpanicked, crashed, lateDone>>
    /\ UNCHANGED notShut

\* srv.ListenAndServe returns http.ErrServerClosed once Shutdown has begun
ListenAndServeClosed ==
    /\ Running
    /\ mainpc = "ListenAndServe"
    /\ listener = "closed"
    /\ mainpc' = "recv"
    /\ UNCHANGED <<listener, signalled, sgpc, lnerr, shutdownResult, serveResult,
                   graceElapsed, hstate, tstate, wg, tdone, tpanicked, crashed, lateDone>>
    /\ UNCHANGED notShut

\* srv.ListenAndServe returns another error: serve returns it at once
ListenAndServeFails ==
    /\ Running
    /\ mainpc = "ListenAndServe"
    /\ listener = "open"
    /\ listener' = "closed"
    /\ mainpc' = "returned"
    /\ serveResult' = "listen error"
    /\ UNCHANGED <<signalled, sgpc, lnerr, shutdownResult,
                   graceElapsed, hstate, tstate, wg, tdone, tpanicked, crashed, lateDone>>
    /\ UNCHANGED notShut

\* shutdownError <- err meets err = <-shutdownError (the channel is unbuffered):
\* serve returns err, the goroutine goes on
SendShutdownError ==
    /\ Running
    /\ sgpc = "send.err"
    /\ mainpc = "recv"
    /\ mainpc' = "returned"
    /\ serveResult' = shutdownResult
    /\ sgpc' = "wg.Wait"
    /\ UNCHANGED <<listener, signalled, lnerr, shutdownResult,
                   graceElapsed, hstate, tstate, wg, tdone, tpanicked, crashed, lateDone>>
    /\ UNCHANGED notShut

\* a shutdown goroutine that does not wait for the background goroutines
wgWaitSkipped(n) == TRUE

\* app.wg.Wait() returns when the counter is zero
wgWaitReturns(n) == n = 0

wgWait ==
    /\ Running
    /\ sgpc = "wg.Wait"
    /\ wgWaitReturns(wg)
    /\ sgpc' = "send.nil"
    /\ UNCHANGED <<listener, signalled, mainpc, lnerr, shutdownResult, serveResult,
                   graceElapsed, hstate, tstate, wg, tdone, tpanicked, crashed, lateDone>>
    /\ UNCHANGED notShut

\* shutdownError <- nil meets err = <-shutdownError: serve returns nil
SendShutdownNil ==
    /\ Running
    /\ sgpc = "send.nil"
    /\ mainpc = "recv"
    /\ mainpc' = "returned"
    /\ serveResult' = "nil"
    /\ sgpc' = "exited"
    /\ UNCHANGED <<listener, signalled, lnerr, shutdownResult,
                   graceElapsed, hstate, tstate, wg, tdone, tpanicked, crashed, lateDone>>
    /\ UNCHANGED notShut

ShutNext ==
    \/ \E h \in Handlers :
        \/ HandlerAccept(h)
        \/ background(h)
        \/ HandlerReturn(h)
        \/ backgroundFnReturns(h)
        \/ backgroundFnPanics(h)
        \/ backgroundRecover(h)
        \/ backgroundDone(h)
    \/ \E s \in {"SIGINT", "SIGTERM"} : Signal(s)
    \/ serveQuit
    \/ \E e \in {"nil", "close error"} : ShutdownCloseListeners(e)
    \/ GraceElapses
    \/ ShutdownReturns
    \/ ListenAndServeClosed
    \/ ListenAndServeFails
    \/ SendShutdownError
    \/ wgWait
    \/ SendShutdownNil

(***************************************************************************)
(* The authorization model: authenticate and the gates of cmd/api.         *)
(***************************************************************************)
\* the error responses of cmd/api/errors.go
ServerError ==
    [ status |-> StatusInternalServerError,
      message |-> "the server encountered a problem and could not process your request" ]
InvalidAuthenticationToken ==
    [ status |-> StatusUnauthorized,
      message |-> "invalid or missing authentication token" ]
AuthenticationRequired ==
    [ status |-> StatusUnauthorized,
      message |-> "you must be authenticated to access this resource" ]
AccountInactive ==
    [ status |-> StatusForbidden,
      message |-> "your user account must be activated to access this resource" ]
NotPermitted ==
    [ status |-> StatusForbidden,
      message |-> "your user account doesn't have the necessary permissions to access this resource" ]
\* what a wrapped handler writes
HandlerResponse == [status |-> StatusOK, message |-> "handler"]

\* var AnonymousUser = &User{}: one distinguished pointer to a zero User
AnonymousUser == [ptr |-> "AnonymousUser", id |-> 0, activated |-> FALSE]

\* the *User that Users.GetForToken allocates
LoadedUser(id) == [ptr |-> "GetForToken", id |-> id, activated |-> users[id].activated]

\* no user in the request context yet
NoUser == [ptr |-> "nil"]

\* u == AnonymousUser (pointer identity)
IsAnonymous(u) == u.ptr = AnonymousUser.ptr

\* the codes of the routes registered with requirePermission
RouteCodes == {"movies:read", "movies:write"}

\* the Authorization headers of the model, as strings.Split(header, " ") sees
\* them; <<>> is the absent (empty) header
AuthHeaders ==
    { <<>>, <<"Bearer">>, <<"Basic", TokenAuth2>>,
      <<"Bearer", TokenShort>>, <<"Bearer", TokenReset2>>,
      <<"Bearer", TokenAuth1>>, <<"Bearer", TokenAuth2>>,
      <<"Bearer", TokenForeign>>, <<"Bearer", [text |-> "", len |-> 0], TokenAuth2>> }

\* a Permissions value that is taken to hold every code
IncludeAlways(permissions, code) == TRUE

\* Permissions.Include
Include(permissions, code) == \E c \in permissions : code = c

\* PermissionModel.GetAllForUser: the codes joined to an existing user
GetAllForUser(userID) ==
    IF userID \in DOMAIN users /\ userID \in DOMAIN aperm THEN aperm[userID] ELSE {}

\* gates that skip the activation check
GateChainNoActivation ==
    <<"requireAuthenticatedUser", "requirePermission", "next">>

\* gates that look the permissions up before anything else
GateChainPermissionFirst ==
    <<"requirePermission", "requireAuthenticatedUser", "requireActivatedUser", "next">>

\* requirePermission(code, next) returns requireActivatedUser(fn), which returns
\* requireAuthenticatedUser(fn): the closures run outermost first
GateChain ==
    <<"requireAuthenticatedUser", "requireActivatedUser", "requirePermission", "next">>

\* next.ServeHTTP(w, r) of a gate: the closure it wraps
NextOf(gate) ==
    LET i == CHOOSE k \in 1 .. Len(GateChain) : GateChain[k] = gate
    IN  GateChain[i + 1]

\* no login response yet
NoToken == [text |-> "", len |-> 0]
NoLogin == [status |-> NoStatus, authentication_token |-> NoToken]

AuthInit ==
    /\ aperm = [u \in DOMAIN InitUsers |-> {"movies:read"}]
    /\ apc = [p \in Procs |-> "idle"]
    /\ areq = [p \in Procs |-> [code |-> "none"]]
    /\ auser = [p \in Procs |-> NoUser]
    /\ aresp = [p \in Procs |-> <<>>]
    /\ ainvoked = [p \in Procs |-> 0]
    /\ alookup = [p \in Procs |-> <<>>]
    /\ acred = [p \in Procs |-> <<>>]
    /\ alogin = NoLogin

\* a middleware writes an error response and returns without calling next
AuthRespond(p, response) ==
    /\ aresp' = [aresp EXCEPT ![p] = Append(@, response)]
    /\ apc' = [apc EXCEPT ![p] = "done"]

\* Permissions.AddForUser, as registerUserHandler or an operator runs it
AddForUser(userID, code) ==
    /\ code \notin aperm[userID]
    /\ aperm' = [aperm EXCEPT ![userID] = @ \cup {code}]
    /\ UNCHANGED <<apc, areq, auser, aresp, ainvoked, alookup, acred, alogin>>
    /\ UNCHANGED <<guardVars, notAuth>>

\* authenticate: an absent Authorization header reads as the empty string
AuthorizationHeaderEmptyNever(header) == FALSE

AuthorizationHeaderEmpty(header) == header = <<>>

\* a check of the header that accepts any scheme
BearerHeaderAnyScheme(header) == Len(header) = 2

\* authenticate: len(headerParts) != 2 || headerParts[0] != "Bearer"
BearerHeader(header) == Len(header) = 2 /\ header[1] = "Bearer"

\* the routes registered without requirePermission (some of them)
UngatedRoutes == {"healthcheck", "users/activated"}

\* router.ServeHTTP: the handler registered for the route, which for a route
\* with a permission code is the outermost closure of requirePermission
RouterDispatch(code) == IF code \in RouteCodes THEN GateChain[1] ELSE "next"

\* authenticate: the answer to an error of Users.GetForToken
GetForTokenErrorAlwaysServerError(err) == ServerError

GetForTokenErrorResponse(err) ==
    IF err = "ErrRecordNotFound" THEN InvalidAuthenticationToken ELSE ServerError

\* authenticate: the request of goroutine p, for a route wrapped in
\* requirePermission(code, next)
authenticate(p, header, code) ==
    /\ apc[p] = "idle"
    /\ areq' = [areq EXCEPT ![p] = [header |-> header, code |-> code]]
    /\ IF AuthorizationHeaderEmpty(header)
       THEN /\ auser' = [auser EXCEPT ![p] = AnonymousUser]
            /\ apc' = [apc EXCEPT ![p] = RouterDispatch(code)]
            /\ UNCHANGED <<aresp, acred>>
       ELSE IF ~BearerHeader(header)
       THEN AuthRespond(p, InvalidAuthenticationToken) /\ UNCHANGED <<auser, acred>>
       ELSE IF ~ValidateTokenPlaintext(header[2])
       THEN AuthRespond(p, InvalidAuthenticationToken) /\ UNCHANGED <<auser, acred>>
       ELSE \/ /\ acred' = [acred EXCEPT ![p] =
                      Append(@, [token |-> header[2], err |-> "other", user_id |-> 0])]
               /\ AuthRespond(p, GetForTokenErrorResponse("other"))
               /\ UNCHANGED auser
            \/ LET rows == GetForTokenRows(ScopeAuthentication, header[2])
               IN  IF rows = {}
                   THEN /\ acred' = [acred EXCEPT ![p] =
                              Append(@, [token |-> header[2], err |-> "ErrRecordNotFound",
                                         user_id |-> 0])]
                        /\ AuthRespond(p, GetForTokenErrorResponse("ErrRecordNotFound"))
                        /\ UNCHANGED auser
                   ELSE /\ \E t \in rows :
                              /\ acred' = [acred EXCEPT ![p] =
                                    Append(@, [token |-> header[2], err |-> "nil",
                                               user_id |-> t.user_id])]
                              /\ auser' = [auser EXCEPT ![p] = LoadedUser(t.user_id)]
                        /\ apc' = [apc EXCEPT ![p] = RouterDispatch(code)]
                        /\ UNCHANGED aresp
    /\ UNCHANGED <<aperm, ainvoked, alookup, alogin>>
    /\ UNCHANGED <<guardVars, notAuth>>

requireAuthenticatedUser(p) ==
    /\ apc[p] = "requireAuthenticatedUser"
    /\ IF IsAnonymous(auser[p])
       THEN AuthRespond(p, AuthenticationRequired)
       ELSE /\ apc' = [apc EXCEPT ![p] = NextOf("requireAuthenticatedUser")]
            /\ UNCHANGED aresp
    /\ UNCHANGED <<aperm, areq, auser, ainvoked, alookup, acred, alogin>>
    /\ UNCHANGED <<guardVars, notAuth>>

requireActivatedUser(p) ==
    /\ apc[p] = "requireActivatedUser"
    /\ IF ~auser[p].activated
       THEN AuthRespond(p, AccountInactive)
       ELSE /\ apc' = [apc EXCEPT ![p] = NextOf("requireActivatedUser")]
            /\ UNCHANGED aresp
    /\ UNCHANGED <<aperm, areq, auser, ainvoked, alookup, acred, alogin>>
    /\ UNCHANGED <<guardVars, notAuth>>

\* the closure of requirePermission: Permissions.GetAllForUser(user.ID), then
\* permissions.Include(code)
requirePermission(p) ==
    /\ apc[p] = "requirePermission"
    /\ \/ /\ alookup' = [alookup EXCEPT ![p] = Append(@, [ok |-> FALSE, permissions |-> {}])]
          /\ AuthRespond(p, ServerError)
       \/ LET permissions == GetAllForUser(auser[p].id)
          IN  /\ alookup' = [alookup EXCEPT ![p] =
                                Append(@, [ok |-> TRUE, permissions |-> permissions])]
              /\ IF ~Include(permissions, areq[p].code)
                 THEN AuthRespond(p, NotPermitted)
                 ELSE /\ apc' = [apc EXCEPT ![p] = NextOf("requirePermission")]
                      /\ UNCHANGED aresp
    /\ UNCHANGED <<aperm, areq, auser, ainvoked, acred, alogin>>
    /\ UNCHANGED <<guardVars, notAuth>>

\* next.ServeHTTP(w, r): the wrapped handler runs and writes its response
nextServeHTTP(p) ==
    /\ apc[p] = "next"
    /\ ainvoked' = [ainvoked EXCEPT ![p] = @ + 1]
    /\ AuthRespond(p, HandlerResponse)
    /\ UNCHANGED <<aperm, areq, auser, alookup, acred, alogin>>
    /\ UNCHANGED <<guardVars, notAuth>>

AuthNext ==
    \/ \E p \in Procs :
        \/ \E header \in AuthHeaders, code \in RouteCodes : authenticate(p, header, code)
        \/ requireAuthenticatedUser(p)
        \/ requireActivatedUser(p)
        \/ requirePermission(p)
        \/ nextServeHTTP(p)
    \/ \E u \in DOMAIN InitUsers : AddForUser(u, "movies:write")
    \/ GuardTick

\* the bodies of POST /v1/tokens/authentication in the model: well-formed
\* e-mail addresses, one of them of no user
LoginEmails == {"alice@example.com", "bob@example.com", "nobody@example.com"}
LoginPasswords == {PasswordOld, PasswordNew, PasswordShort}

\* UserModel.GetByEmail: the ids of the rows WHERE email = $1
GetByEmail(email) == {id \in DOMAIN users : users[id].email = email}

\* password.Matches: bcrypt.CompareHashAndPassword
Matches(hash, password) == hash = Bcrypt(password)

\* claims.HMACSign(jwt.HS256, secret) for claims with this subject: three
\* base64url parts joined by "."; the header {"alg":"HS256"} has 20
\* characters, the signature of 32 bytes has 43, the claims set of the
\* handler (sub, iat, nbf, exp, iss, aud) about 168
HMACSign(subject) ==
    [text |-> IF subject = 1 THEN "jwt.sub=1" ELSE "jwt.sub=2",
     len |-> 20 + 1 + 168 + 1 + 43]

\* createAuthenticationTokenHandler
createAuthenticationTokenHandler(email, password) ==
    /\ IF ~ValidatePasswordPlaintext(password)
       THEN alogin' = [status |-> StatusUnprocessableEntity, authentication_token |-> NoToken]
       ELSE \/ alogin' = [status |-> StatusInternalServerError,
                          authentication_token |-> NoToken]
            \/ IF GetByEmail(email) = {}
               THEN alogin' = [status |-> StatusUnauthorized,
                               authentication_token |-> NoToken]
               ELSE \E id \in GetByEmail(email) :
                      IF ~Matches(users[id].hash, password)
                      THEN alogin' = [status |-> StatusUnauthorized,
                                      authentication_token |-> NoToken]
                      ELSE alogin' = [status |-> StatusCreated,
                                      authentication_token |-> HMACSign(id)]
    /\ UNCHANGED <<aperm, apc, areq, auser, aresp, ainvoked, alookup, acred>>
    /\ UNCHANGED <<guardVars, notAuth>>

\* the Authorization header of a client that presents the token of the latest
\* login response unmodified
IssuedHeaders ==
    IF alogin.status = StatusCreated
    THEN {<<"Bearer", alogin.authentication_token>>}
    ELSE {}

\* logins and requests that carry no header, a stored token or the token the
\* login returned
LoginNext ==
    \/ \E email \in LoginEmails, password \in LoginPasswords :
            createAuthenticationTokenHandler(email, password)
    \/ \E p \in Procs :
        \/ \E header \in IssuedHeaders \cup {<<>>, <<"Bearer", TokenAuth2>>},
              code \in RouteCodes : authenticate(p, header, code)
        \/ requireAuthenticatedUser(p)
        \/ requireActivatedUser(p)
        \/ requirePermission(p)
        \/ nextServeHTTP(p)

(***************************************************************************)
(* The rate limiter model: rateLimit of cmd/api and the rate.Limiter it    *)
(* keeps per client.                                                       *)
(***************************************************************************)
\* the defaults of the limiter flags
LimiterRps == 2
LimiterBurst == 4


\* time.Minute, in ticks
Minute == 60 * TicksPerSecond

\* the client identities of the model
Clients == {"c1", "c2"}

\* the one address of the specifications in which all requests have one origin
ChainClients == {"c1"}

\* Tokens are counted in units of 1/TicksPerSecond token, so that the refill of
\* one tick is a whole number: a request costs TicksPerSecond units.
\* rate.Limit is a float64: a rate of num/den tokens per second
Rate(n) == [num |-> n, den |-> 1]

\* Limit.tokensFromDuration
tokensFromDuration(limit, elapsed) == (elapsed * limit.num) \div limit.den

\* rate.NewLimiter(r, b): a bucket of b tokens, full at first use
NewLimiter(r, b, t) ==
    [limit |-> r, burst |-> b, tokens |-> b * TicksPerSecond, last |-> t]

\* Limiter.advance: the tokens at time t, capped at the burst
advance(lim, t) ==
    LET last == IF t < lim.last THEN t ELSE lim.last
        refilled == lim.tokens + tokensFromDuration(lim.limit, t - last)
    IN  IF refilled > lim.burst * TicksPerSecond
        THEN lim.burst * TicksPerSecond
        ELSE refilled

\* Limiter.Allow() at time t: whether one token is there
AllowOk(lim, t) == 1 <= lim.burst /\ advance(lim, t) - TicksPerSecond >= 0

\* an Allow() that takes a token even when it refuses
AllowLimiterTakesAlways(lim, t) ==
    [lim EXCEPT !.tokens = advance(lim, t) - TicksPerSecond, !.last = t]

\* Limiter.Allow() at time t: the limiter afterwards (unchanged when refused)
AllowLimiter(lim, t) ==
    IF AllowOk(lim, t)
    THEN [lim EXCEPT !.tokens = advance(lim, t) - TicksPerSecond, !.last = t]
    ELSE lim

\* a limiter made with the two flags in each other's place
clientLimiterSwapped(t) == NewLimiter(Rate(lconfig.burst), lconfig.rps.num, t)

\* rate.NewLimiter(rate.Limit(app.config.limiter.rps), app.config.limiter.burst)
clientLimiter(t) == NewLimiter(lconfig.rps, lconfig.burst, t)

\* a handler that makes a new client for every request
clientAlwaysNew(ip, t) == [limiter |-> clientLimiter(t), lastSeen |-> 0]

\* if _, found := clients[ip]; !found { clients[ip] = &client{...} }
clientFor(ip, t) ==
    IF ip \in DOMAIN clients
    THEN clients[ip]
    ELSE [limiter |-> clientLimiter(t), lastSeen |-> 0]

\* the values of the mutex: unlocked, locked by the sweep goroutine, locked by
\* the handler running in request goroutine p
MuFree == [by |-> "none", p |-> 0]
MuSweep == [by |-> "sweep", p |-> 0]
MuHandler(p) == [by |-> "handler", p |-> p]

\* a sweep that removes the clients not seen for one minute
sweepExpiredAfterMinute(client) == lnow - client.lastSeen > Minute

\* a sweep that removes every client it finds
sweepExpiredAtOnce(client) == lnow - client.lastSeen >= 0

\* time.Since(client.lastSeen) > 3*time.Minute
sweepExpired(client) == lnow - client.lastSeen > 3 * Minute

\* A window of a client's requests holds n requests over a time d; its excess
\* is n less the tokens refilled in d (in units of 1/TicksPerSecond token).
\* lexcess is the largest excess of the windows that end with the client's
\* latest request, less the refill since: the next request makes it
\* ExcessAfterRequest, the passing of time ExcessAfter.
ExcessAfter(excess, elapsed) ==
    LET rest == excess - tokensFromDuration(Rate(LimiterRps), elapsed)
    IN  IF rest < 0 THEN 0 ELSE rest

ExcessAfterRequest(excess) == excess + TicksPerSecond

\* the state when rateLimit has wrapped the handler, for a value of the flag
\* -limiter-enabled
LimInitFlag(enabled) ==
    /\ lnow = 0
    /\ lfine = 0
    /\ lenabled = enabled
    /\ mu = MuFree
    /\ clients = <<>>
    /\ lpc = [p \in Procs |-> "idle"]
    /\ lip = [p \in Procs |-> "none"]
    /\ spc = "Sleep"
    /\ swake = Minute
    /\ lburst = [c \in Clients |-> <<>>]
    /\ lexcess = [c \in Clients |-> 0]
    /\ lconform = [c \in Clients |-> TRUE]
    /\ ldenied = [c \in Clients |-> FALSE]
    /\ lcreated = [c \in Clients |-> 0]
    /\ lcount = 0

\* the flag's default
LimInit == LimInitFlag(TRUE)

\* the defaults of -limiter-rps and -limiter-burst
DefaultConfig == [rps |-> Rate(LimiterRps), burst |-> LimiterBurst]

\* the server starts with this configuration of the limiter
CfgInit(config) ==
    /\ lconfig = config
    /\ lkept = <<>>

\* On the clock of the model a goroutine that can run does not wait a tick: no
\* time passes while the mutex is held (it is held for an in-memory operation
\* only) or while the sweep goroutine is awake.
ClockRuns == mu = MuFree /\ spc = "Sleep" /\ lnow < swake

\* one tick passes
LimTick ==
    /\ ClockRuns
    /\ lfine < MaxTicks
    /\ lfine' = lfine + 1
    /\ lnow' = lnow + 1
    /\ lexcess' = [c \in Clients |-> ExcessAfter(lexcess[c], 1)]
    /\ lburst' = [c \in Clients |-> <<>>]
    /\ UNCHANGED <<lenabled, mu, clients, lpc, lip, spc, swake, lconform, ldenied,
                   lcreated, lcount>>
    /\ UNCHANGED notLim

\* a minute passes
LimMinute ==
    /\ ClockRuns
    /\ lnow + Minute <= MaxMinutes * Minute + MaxTicks
    /\ lnow' = lnow + Minute
    /\ lexcess' = [c \in Clients |-> ExcessAfter(lexcess[c], Minute)]
    /\ lburst' = [c \in Clients |-> <<>>]
    /\ UNCHANGED <<lfine, lenabled, mu, clients, lpc, lip, spc, swake, lconform, ldenied,
                   lcreated, lcount>>
    /\ UNCHANGED notLim

\* a handler that throttles whatever the flag says
rateLimitAppliesAlways == TRUE

\* if app.config.limiter.enabled
rateLimitApplies == lenabled

\* the handler of rateLimit, up to mu.Lock()
rateLimit_Lock(p, ip) ==
    /\ lcount < MaxRequests
    /\ lpc[p] = "idle"
    /\ rateLimitApplies
    /\ mu = MuFree
    /\ mu' = MuHandler(p)
    /\ lpc' = [lpc EXCEPT ![p] = "locked"]
    /\ lip' = [lip EXCEPT ![p] = ip]
    /\ UNCHANGED <<lnow, lfine, lenabled, clients, spc, swake, lburst, lexcess, lconform, ldenied, lcreated, lcount>>
    /\ UNCHANGED notLim

\* the handler of rateLimit under the mutex: the client of this ip (made if
\* absent), lastSeen, limiter.Allow(), mu.Unlock(), and then either
\* rateLimitExceededResponse or next.ServeHTTP
rateLimit_Critical(p) ==
    /\ lpc[p] = "locked"
    /\ mu = MuHandler(p)
    /\ LET ip == lip[p]
           client == clientFor(ip, lnow)
           ok == AllowOk(client.limiter, lnow)
       IN  /\ clients' =
                [c \in DOMAIN clients \cup {ip} |->
                    IF c = ip
                    THEN [ limiter |-> AllowLimiter(client.limiter, lnow),
                           lastSeen |-> lnow ]
                    ELSE clients[c]]
           /\ lcreated' = [lcreated EXCEPT ![ip] = IF ip \in DOMAIN clients THEN @ ELSE @ + 1]
           /\ lburst' = [lburst EXCEPT ![ip] =
                            IF ip \notin DOMAIN clients \/ lburst[ip] # <<>>
                            THEN Append(@, [ allowed |-> ok,
                                             status |-> IF ok THEN NoStatus
                                                        ELSE StatusTooManyRequests ])
                            ELSE @]
           /\ lexcess' = [lexcess EXCEPT ![ip] = ExcessAfterRequest(@)]
           /\ lconform' = [lconform EXCEPT ![ip] =
                            @ /\ ExcessAfterRequest(lexcess[ip]) <= LimiterBurst * TicksPerSecond]
           /\ ldenied' = [ldenied EXCEPT ![ip] = @ \/ ~ok]
    /\ mu' = MuFree
    /\ lip' = [lip EXCEPT ![p] = "none"]
    /\ lcount' = lcount + 1
    /\ UNCHANGED <<lnow, lfine, lenabled, spc, swake>>

\* rateLimit with the wrapped handler left out: the request ends here
rateLimit_Allow(p) ==
    /\ rateLimit_Critical(p)
    /\ lpc' = [lpc EXCEPT ![p] = "idle"]
    /\ UNCHANGED notLim

\* the sweep goroutine: time.Sleep(time.Minute) returns
sweep_Sleep ==
    /\ spc = "Sleep"
    /\ lnow >= swake
    /\ spc' = "Lock"
    /\ UNCHANGED <<lnow, lfine, lenabled, mu, clients, lpc, lip, swake, lburst,
                   lexcess, lconform, ldenied, lcreated, lcount>>
    /\ UNCHANGED notLim

\* the sweep goroutine: mu.Lock()
sweep_Lock ==
    /\ spc = "Lock"
    /\ mu = MuFree
    /\ mu' = MuSweep
    /\ spc' = "range"
    /\ UNCHANGED <<lnow, lfine, lenabled, clients, lpc, lip, swake, lburst,
                   lexcess, lconform, ldenied, lcreated, lcount>>
    /\ UNCHANGED notLim

\* the sweep goroutine: the range loop with its deletes, mu.Unlock(), and the
\* next time.Sleep begins
sweep_Range ==
    /\ spc = "range"
    /\ mu = MuSweep
    /\ clients' = [c \in {d \in DOMAIN clients : ~sweepExpired(clients[d])} |-> clients[c]]
    /\ mu' = MuFree
    /\ spc' = "Sleep"
    /\ swake' = lnow + Minute
    /\ UNCHANGED <<lnow, lfine, lenabled, lpc, lip, lburst, lexcess, lconform, ldenied, lcreated, lcount>>
    /\ UNCHANGED notLim

LimNext ==
    \/ LimTick
    \/ LimMinute
    \/ \E p \in Procs :
        \/ \E ip \in Clients : rateLimit_Lock(p, ip)
        \/ rateLimit_Allow(p)
    \/ sweep_Sleep
    \/ sweep_Lock
    \/ sweep_Range

(***************************************************************************)
(* The handler of rateLimit statement by statement: what the mutex is for. *)
(***************************************************************************)
\* a mutex that never makes a caller wait
mutexFreeAlways == TRUE

\* sync.Mutex: Lock returns when no goroutine holds the mutex
mutexFree == mu = MuFree

\* the request enters the handler: realip.FromRequest, and mu.Lock() is called
handler_Enter(p, ip) ==
    /\ lcount < MaxRequests
    /\ lpc[p] = "idle"
    /\ rateLimitApplies
    /\ lpc' = [lpc EXCEPT ![p] = "Lock"]
    /\ lip' = [lip EXCEPT ![p] = ip]
    /\ lcount' = lcount + 1
    /\ UNCHANGED <<lnow, lfine, lenabled, mu, clients, spc, swake, lburst, lexcess,
                   lconform, ldenied, lcreated>>
    /\ UNCHANGED notLim

\* mu.Lock() returns
handler_Lock(p) ==
    /\ lpc[p] = "Lock"
    /\ mutexFree
    /\ mu' = MuHandler(p)
    /\ lpc' = [lpc EXCEPT ![p] = "found"]
    /\ UNCHANGED <<lnow, lfine, lenabled, clients, lip, spc, swake, lburst, lexcess,
                   lconform, ldenied, lcreated, lcount>>
    /\ UNCHANGED notLim

\* if _, found := clients[ip]; !found
handler_Found(p) ==
    /\ lpc[p] = "found"
    /\ lpc' = [lpc EXCEPT ![p] = IF lip[p] \in DOMAIN clients THEN "lastSeen" ELSE "insert"]
    /\ UNCHANGED <<lnow, lfine, lenabled, mu, clients, lip, spc, swake, lburst, lexcess,
                   lconform, ldenied, lcreated, lcount>>
    /\ UNCHANGED notLim

\* clients[ip] = &client{limiter: rate.NewLimiter(...)}
handler_Insert(p) ==
    /\ lpc[p] = "insert"
    /\ clients' = [c \in DOMAIN clients \cup {lip[p]} |->
                      IF c = lip[p]
                      THEN [limiter |-> clientLimiter(lnow), lastSeen |-> 0]
                      ELSE clients[c]]
    /\ lcreated' = [lcreated EXCEPT ![lip[p]] = @ + 1]
    /\ lpc' = [lpc EXCEPT ![p] = "lastSeen"]
    /\ UNCHANGED <<lnow, lfine, lenabled, mu, lip, spc, swake, lburst, lexcess,
                   lconform, ldenied, lcount>>
    /\ UNCHANGED notLim

\* clients[ip].lastSeen = time.Now(); a missing entry is a nil pointer: panic
handler_LastSeen(p) ==
    /\ lpc[p] = "lastSeen"
    /\ IF lip[p] \in DOMAIN clients
       THEN /\ clients' = [clients EXCEPT ![lip[p]].lastSeen = lnow]
            /\ lpc' = [lpc EXCEPT ![p] = "Allow"]
       ELSE /\ lpc' = [lpc EXCEPT ![p] = "panic"]
            /\ UNCHANGED clients
    /\ UNCHANGED <<lnow, lfine, lenabled, mu, lip, spc, swake, lburst, lexcess,
                   lconform, ldenied, lcreated, lcount>>
    /\ UNCHANGED notLim

\* clients[ip].limiter.Allow()
handler_Allow(p) ==
    /\ lpc[p] = "Allow"
    /\ IF lip[p] \in DOMAIN clients
       THEN LET lim == clients[lip[p]].limiter
                ok == AllowOk(lim, lnow)
            IN  /\ clients' = [clients EXCEPT ![lip[p]].limiter = AllowLimiter(lim, lnow)]
                /\ lburst' = [lburst EXCEPT ![lip[p]] =
                                Append(@, [ allowed |-> ok,
                                            status |-> IF ok THEN NoStatus
                                                       ELSE StatusTooManyRequests ])]
                /\ lpc' = [lpc EXCEPT ![p] = IF ok THEN "admit.Unlock" ELSE "deny.Unlock"]
       ELSE /\ lpc' = [lpc EXCEPT ![p] = "panic"]
            /\ UNCHANGED <<clients, lburst>>
    /\ UNCHANGED <<lnow, lfine, lenabled, mu, lip, spc, swake, lexcess,
                   lconform, ldenied, lcreated, lcount>>
    /\ UNCHANGED notLim

\* a handler that forgets mu.Unlock() before rateLimitExceededResponse
handler_UnlockPathsAdmitOnly == {"admit.Unlock"}

\* the two calls of mu.Unlock(): before the 429 response and before next
handler_UnlockPaths == {"admit.Unlock", "deny.Unlock"}

\* mu.Unlock(), on the path of a refused and of an admitted request
handler_Unlock(p) ==
    /\ lpc[p] \in {"admit.Unlock", "deny.Unlock"}
    /\ mu' = IF lpc[p] \in handler_UnlockPaths THEN MuFree ELSE mu
    /\ lpc' = [lpc EXCEPT ![p] = IF lpc[p] = "admit.Unlock" THEN "next" ELSE "429"]
    /\ UNCHANGED <<lnow, lfine, lenabled, clients, lip, spc, swake, lburst, lexcess,
                   lconform, ldenied, lcreated, lcount>>
    /\ UNCHANGED notLim

\* rateLimitExceededResponse or next.ServeHTTP, and the handler returns
handler_Return(p) ==
    /\ lpc[p] \in {"next", "429"}
    /\ lpc' = [lpc EXCEPT ![p] = "idle"]
    /\ lip' = [lip EXCEPT ![p] = "none"]
    /\ UNCHANGED <<lnow, lfine, lenabled, mu, clients, spc, swake, lburst, lexcess,
                   lconform, ldenied, lcreated, lcount>>
    /\ UNCHANGED notLim

MutexNext ==
    \/ \E p \in Procs :
        \/ \E ip \in ChainClients : handler_Enter(p, ip)
        \/ handler_Lock(p)
        \/ handler_Found(p)
        \/ handler_Insert(p)
        \/ handler_LastSeen(p)
        \/ handler_Allow(p)
        \/ handler_Unlock(p)
        \/ handler_Return(p)
    \/ LimMinute
    \/ sweep_Sleep
    \/ sweep_Lock
    \/ sweep_Range

(***************************************************************************)
(* The three callers of Users.GetForToken, each given tokens of every      *)
(* scope.                                                                  *)
(***************************************************************************)
\* one stored token of each scope, and one that is not stored
ScopeTokens == {TokenActivation1, TokenReset2, TokenAuth2}

\* a request goroutine serves one request: it goes through authenticate with
\* a bearer token, or (its header empty) it is in one of the two handlers
scope_authenticate(p, token) ==
    /\ gpc[p] = "idle"
    /\ authenticate(p, <<"Bearer", token>>, "movies:read")

scope_activateUserHandler(p, token) ==
    /\ apc[p] = "idle"
    /\ activateUserHandler_GetForToken(p, token)

scope_updateUserPasswordHandler(p, token) ==
    /\ apc[p] = "idle"
    /\ updateUserPasswordHandler_GetForToken(p, PasswordNew, token)

ScopeNext ==
    \/ GuardTick
    \/ \E p \in Procs :
        \/ \E token \in ScopeTokens : scope_authenticate(p, token)
        \/ \E token \in ScopeTokens : scope_activateUserHandler(p, token)
        \/ activateUserHandler_Update(p)
        \/ activateUserHandler_DeleteAllForUser(p)
        \/ \E token \in ScopeTokens : scope_updateUserPasswordHandler(p, token)
        \/ updateUserPasswordHandler_Update(p)
        \/ updateUserPasswordHandler_DeleteAllForUser(p)

(***************************************************************************)
(* Registration, activation and the permission routes: what a user made    *)
(* by registerUserHandler may do.                                          *)
(***************************************************************************)
RegisterInputs ==
    { [name |-> "carol", email |-> "carol@example.com", password |-> password] :
        password \in PasswordInputs }

\* ValidateUser (every e-mail of the model matches EmailRX)
ValidateUser(input) ==
    /\ input.name # ""
    /\ input.email # ""
    /\ ValidatePasswordPlaintext(input.password)

\* users.id is a bigserial, and no statement deletes a user
NextUserID == Cardinality(DOMAIN users) + 1

\* the unique constraint users_email_key, as an INSERT meets it
UserInsertDuplicateEmail(email) == \E u \in DOMAIN users : users[u].email = email

\* a registration that grants every permission
RegisterPermissionsAll == {"movies:read", "movies:write"}

\* app.models.Permissions.AddForUser(user.ID, "movies:read")
RegisterPermissions == {"movies:read"}

\* PermissionModel.AddForUser: INSERT INTO users_permissions SELECT $1,
\* permissions.id FROM permissions WHERE permissions.code = ANY($2)
AddForUserRows(userID, codes) ==
    [ u \in DOMAIN aperm \cup {userID} |->
        (IF u \in DOMAIN aperm THEN aperm[u] ELSE {})
        \cup (IF u = userID THEN codes \cap RouteCodes ELSE {}) ]

\* readJSON, Password.Set, ValidateUser and Users.Insert
registerUserHandler_Insert(p, input) ==
    /\ apc[p] = "idle"
    /\ Accept(p, [handler |-> "registerUser", input |-> input])
    /\ IF ~ValidateUser(input)
       THEN /\ Respond(p, StatusUnprocessableEntity)
            /\ UNCHANGED <<users, gloc>>
       ELSE \/ /\ Respond(p, StatusInternalServerError)
               /\ UNCHANGED <<users, gloc>>
            \/ IF UserInsertDuplicateEmail(input.email)
               THEN /\ Respond(p, StatusUnprocessableEntity)
                    /\ UNCHANGED <<users, gloc>>
               ELSE LET id == NextUserID
                        row == [ name |-> input.name, email |-> input.email,
                                 hash |-> Bcrypt(input.password),
                                 activated |-> FALSE, version |-> 1 ]
                    IN  /\ users' = users @@ (id :> row)
                        /\ gloc' = [gloc EXCEPT ![p] = [id |-> id] @@ row]
                        /\ gpc' = [gpc EXCEPT ![p] = "register.AddForUser"]
                        /\ UNCHANGED gresp
    /\ UNCHANGED <<movies, tokens, gnow, gupd>>
    /\ UNCHANGED notGuard

\* Permissions.AddForUser(user.ID, "movies:read")
registerUserHandler_AddForUser(p) ==
    /\ gpc[p] = "register.AddForUser"
    /\ \/ /\ Respond(p, StatusInternalServerError)
          /\ UNCHANGED aperm
       \/ /\ aperm' = AddForUserRows(gloc[p].id, RegisterPermissions)
          /\ gpc' = [gpc EXCEPT ![p] = "register.Tokens.New"]
          /\ UNCHANGED gresp
    /\ UNCHANGED <<movies, users, tokens, gnow, greq, gloc, gupd>>
    /\ UNCHANGED <<apc, areq, auser, aresp, ainvoked, alookup, acred, alogin>>
    /\ UNCHANGED notAuth

\* Tokens.New(user.ID, 3*24*time.Hour, ScopeActivation), the welcome e-mail
\* handed to app.background, and the response 202
registerUserHandler_TokensNew(p) ==
    /\ gpc[p] = "register.Tokens.New"
    /\ \/ /\ Respond(p, StatusInternalServerError)
          /\ UNCHANGED tokens
       \/ /\ tokens' = tokens \cup
                { [ hash |-> Sha256(TokenActivation3), user_id |-> gloc[p].id,
                    expiry |-> gnow + MaxClock, scope |-> ScopeActivation ] }
          /\ Respond(p, StatusAccepted)
    /\ UNCHANGED <<movies, users, gnow, greq, gloc, gupd>>
    /\ UNCHANGED notGuard

\* TokenModel.New with ScopeAuthentication: no handler of the repository calls
\* it; the rows of that scope are written from outside, as those of InitTokens
TokensNewAuthentication(userID, token) ==
    LET row == [ hash |-> Sha256(token), user_id |-> userID,
                 expiry |-> gnow + MaxClock, scope |-> ScopeAuthentication ]
    IN  /\ userID \in DOMAIN users
        /\ row \notin tokens
        /\ tokens' = tokens \cup {row}
        /\ UNCHANGED <<movies, users, gnow, gpc, greq, gloc, gresp, gupd>>
        /\ UNCHANGED notGuard

\* a request with a bearer token to a route wrapped in requirePermission
register_authenticate(p, token, code) ==
    /\ gpc[p] = "idle"
    /\ authenticate(p, <<"Bearer", token>>, code)

RegisterNext ==
    \/ \E p \in Procs :
        \/ \E input \in RegisterInputs : registerUserHandler_Insert(p, input)
        \/ registerUserHandler_AddForUser(p)
        \/ registerUserHandler_TokensNew(p)
        \/ \E token \in {TokenActivation1, TokenActivation3} :
               scope_activateUserHandler(p, token)
        \/ activateUserHandler_Update(p)
        \/ activateUserHandler_DeleteAllForUser(p)
        \/ \E token \in {TokenAuth1, TokenAuth3}, code \in RouteCodes :
               register_authenticate(p, token, code)
        \/ requireAuthenticatedUser(p)
        \/ requireActivatedUser(p)
        \/ requirePermission(p)
        \/ nextServeHTTP(p)
    \/ \E u \in DOMAIN users \ DOMAIN InitUsers : TokensNewAuthentication(u, TokenAuth3)

(***************************************************************************)
(* authenticate in front of every route, gated or not.                     *)
(***************************************************************************)
RoutesHeaders ==
    { <<>>, <<"Bearer">>, <<"Basic", TokenAuth2>>, <<"Bearer", TokenShort>>,
      <<"Bearer", TokenUnknown>>, <<"Bearer", TokenAuth2>> }

RoutesNext ==
    \/ GuardTick
    \/ \E p \in Procs :
        \/ \E header \in RoutesHeaders, route \in {"movies:read"} \cup UngatedRoutes :
               authenticate(p, header, route)
        \/ requireAuthenticatedUser(p)
        \/ requireActivatedUser(p)
        \/ requirePermission(p)
        \/ nextServeHTTP(p)

(***************************************************************************)
(* The limiter under the configurations of the model, next to a registry   *)
(* from which nothing is deleted.                                          *)
(***************************************************************************)
\* -limiter-rps so low that less than one token is refilled in the time the
\* model covers, and -limiter-burst 1
LowRateConfig ==
    [rps |-> [num |-> 1, den |-> TicksPerSecond * (MaxMinutes * Minute + MaxTicks + 1)],
     burst |-> 1]

Configs == {DefaultConfig, LowRateConfig}

\* the limiter of this ip in the registry from which nothing is deleted
keptFor(ip, t) == IF ip \in DOMAIN lkept THEN lkept[ip] ELSE clientLimiter(t)

\* rateLimit_Allow, and the same request on the registry from which nothing is
\* deleted
rateLimit_AllowKept(p) ==
    /\ rateLimit_Critical(p)
    /\ lpc' = [lpc EXCEPT ![p] = "idle"]
    /\ lkept' = [c \in DOMAIN lkept \cup {lip[p]} |->
                    IF c = lip[p] THEN AllowLimiter(keptFor(lip[p], lnow), lnow)
                    ELSE lkept[c]]
    /\ UNCHANGED <<guardVars, shutVars, authVars, lconfig>>

ConfigNext ==
    \/ LimMinute
    \/ \E p \in Procs :
        \/ \E ip \in Clients : rateLimit_Lock(p, ip)
        \/ rateLimit_AllowKept(p)
    \/ sweep_Sleep
    \/ sweep_Lock
    \/ sweep_Range

(***************************************************************************)
(* The middleware chain of routes: rateLimit(authenticate(router)), the    *)
(* router dispatching to requirePermission(code, handler).                 *)
(***************************************************************************)
ChainHeaders == {<<>>, <<"Bearer", TokenUnknown>>, <<"Bearer", TokenAuth2>>}

\* authenticate runs for a request whatever rateLimit did with it
nextReachedAlways(p) == TRUE

\* rateLimit has called next.ServeHTTP for the request of goroutine p
nextReached(p) == lpc[p] = "next"

\* the handler of rateLimit with the limiter disabled: next.ServeHTTP at once
rateLimit_Disabled(p) ==
    /\ lcount < MaxRequests
    /\ lpc[p] = "idle"
    /\ ~rateLimitApplies
    /\ lpc' = [lpc EXCEPT ![p] = "next"]
    /\ lcount' = lcount + 1
    /\ UNCHANGED <<lnow, lfine, lenabled, mu, clients, lip, spc, swake, lburst, lexcess,
                   lconform, ldenied, lcreated>>
    /\ UNCHANGED notLim

\* the handler of rateLimit under the mutex, and then rateLimitExceededResponse
\* and return, or next.ServeHTTP
rateLimit_AllowNext(p) ==
    /\ rateLimit_Critical(p)
    /\ lpc' = [lpc EXCEPT ![p] =
                IF AllowOk(clientFor(lip[p], lnow).limiter, lnow) THEN "next" ELSE "429"]
    /\ UNCHANGED notLim

\* authenticate as the next handler of rateLimit
chain_authenticate(p, header, code) ==
    /\ nextReached(p)
    /\ authenticate(p, header, code)

\* the handler of rateLimit returns: the goroutine is free for a new request
chain_Return(p) ==
    /\ \/ lpc[p] = "429"
       \/ lpc[p] = "next" /\ apc[p] = "done"
    /\ lpc' = [lpc EXCEPT ![p] = "idle"]
    /\ apc' = [apc EXCEPT ![p] = "idle"]
    /\ areq' = [areq EXCEPT ![p] = [code |-> "none"]]
    /\ auser' = [auser EXCEPT ![p] = NoUser]
    /\ aresp' = [aresp EXCEPT ![p] = <<>>]
    /\ ainvoked' = [ainvoked EXCEPT ![p] = 0]
    /\ alookup' = [alookup EXCEPT ![p] = <<>>]
    /\ acred' = [acred EXCEPT ![p] = <<>>]
    /\ UNCHANGED <<aperm, alogin>>
    /\ UNCHANGED <<lnow, lfine, lenabled, mu, clients, lip, spc, swake, lburst, lexcess,
                   lconform, ldenied, lcreated, lcount>>
    /\ UNCHANGED <<guardVars, shutVars, cfgVars>>

ChainNext ==
    \/ \E p \in Procs :
        \/ \E ip \in ChainClients : rateLimit_Lock(p, ip)
        \/ rateLimit_AllowNext(p)
        \/ rateLimit_Disabled(p)
        \/ \E header \in ChainHeaders, code \in RouteCodes :
                chain_authenticate(p, header, code)
        \/ requireAuthenticatedUser(p)
        \/ requireActivatedUser(p)
        \/ requirePermission(p)
        \/ nextServeHTTP(p)
        \/ chain_Return(p)

(***************************************************************************)
(* The specifications: one per part of the layer, the other parts at rest. *)
(***************************************************************************)
Init == GuardInit /\ ShutInit /\ AuthInit /\ LimInit /\ CfgInit(DefaultConfig)

SpecGuard == Init /\ [][GuardNext]_vars

SpecShutdown == Init /\ [][ShutNext]_vars

\* a goroutine that can run does run (the shutdown goroutine, serve, the runtime
\* timer of the grace period), and every background function ends; nothing is
\* assumed of signals, of new connections or of the handlers in flight
SpecShutdownFair ==
    /\ Init /\ [][ShutNext]_vars
    /\ WF_vars(serveQuit \/ (\E e \in {"nil", "close error"} : ShutdownCloseListeners(e))
                \/ ShutdownReturns \/ SendShutdownError \/ wgWait \/ SendShutdownNil)
    /\ WF_vars(ListenAndServeClosed)
    /\ WF_vars(GraceElapses)
    /\ \A h \in Handlers :
          WF_vars(backgroundFnReturns(h) \/ backgroundFnPanics(h)
                   \/ backgroundRecover(h) \/ backgroundDone(h))

SpecAuth == Init /\ [][AuthNext]_vars
SpecLogin == Init /\ [][LoginNext]_vars
SpecScope == Init /\ [][ScopeNext]_vars
SpecRegister == Init /\ [][RegisterNext]_vars
SpecRoutes == Init /\ [][RoutesNext]_vars

SpecMutex == Init /\ [][MutexNext]_vars

\* a goroutine that can run does run, and sync.Mutex hands the lock to a
\* goroutine that waits for it once the mutex stays free; the stronger promise
\* of the mutex's starvation mode is not needed here
SpecMutexFair ==
    /\ Init /\ [][MutexNext]_vars
    /\ \A p \in Procs :
          WF_vars(handler_Lock(p) \/ handler_Found(p) \/ handler_Insert(p)
                   \/ handler_LastSeen(p) \/ handler_Allow(p) \/ handler_Unlock(p))
    /\ WF_vars(sweep_Lock \/ sweep_Range)

\* the chain starts with the limiter enabled or disabled
InitChain ==
    /\ GuardInit /\ ShutInit /\ AuthInit
    /\ \E enabled \in BOOLEAN : LimInitFlag(enabled)
    /\ CfgInit(DefaultConfig)

SpecChain == InitChain /\ [][ChainNext]_vars

\* the server is started with one of the configurations of the limiter
InitConfig ==
    /\ GuardInit /\ ShutInit /\ AuthInit /\ LimInit
    /\ \E config \in Configs : CfgInit(config)

SpecConfig == InitConfig /\ [][ConfigNext]_vars

SpecLimiter == Init /\ [][LimNext]_vars

(***************************************************************************)
(* Properties of the guard.                                               *)
(***************************************************************************)
\* two requests whose conditional UPDATEs named the same row and carried the
\* same expected version, both executed by the database (neither ended in a
\* storage failure or a constraint violation), the first of them at a moment
\* when the row existed at that version
SameVersionRace(p, q) ==
    /\ p # q
    /\ gupd[p].done /\ gupd[q].done
    /\ gupd[p].table = gupd[q].table
    /\ gupd[p].id = gupd[q].id
    /\ gupd[p].expected = gupd[q].expected
    /\ gupd[p].outcome \in {"ok", "conflict"}
    /\ gupd[q].outcome \in {"ok", "conflict"}
    /\ (gupd[p].stored = gupd[p].expected \/ gupd[q].stored = gupd[q].expected)

Won(p) ==
    /\ gupd[p].outcome = "ok"
    /\ gupd[p].returned = gupd[p].expected + 1

Lost(p) ==
    /\ gupd[p].outcome = "conflict"
    /\ gresp[p] = StatusConflict

\* C1: of two concurrent conditional updates (MovieModel.Update or
\* UserModel.Update) of the same existing id that carry the same expected version
\* v, exactly one succeeds, storing and returning version v+1, and the other
\* gets ErrEditConflict, in every interleaving.
C1_ExactlyOneWins ==
    \A p, q \in Procs :
        SameVersionRace(p, q) =>
            \/ Won(p) /\ Lost(q)
            \/ Won(q) /\ Lost(p)

C1_Witness ==
    \E p, q \in Procs :
        /\ SameVersionRace(p, q)
        /\ gupd[p].table = "users"
        /\ Won(p) /\ Lost(q)

\* C2: every updateMovieHandler request that answers 200 stored the fields of
\* the row as it was immediately before its write with the request's own fields
\* merged in, and its write was computed from that very version: no write
\* computed from an older version replaces a later one.
C2_NoLostUpdate ==
    \A p \in Procs :
        (greq[p].handler = "updateMovie" /\ gresp[p] = StatusOK) =>
            /\ gupd[p].done
            /\ gupd[p].outcome = "ok"
            /\ gupd[p].expected = gupd[p].stored
            /\ gupd[p].after = MovieFields(MergeMovieInput(gupd[p].before, greq[p].input))

\* two updates of one movie both answered 200, the later one on top of the first
C2_Witness ==
    \E p, q \in Procs :
        /\ p # q
        /\ greq[p].handler = "updateMovie" /\ gresp[p] = StatusOK
        /\ greq[q].handler = "updateMovie" /\ gresp[q] = StatusOK
        /\ gupd[p].id = gupd[q].id
        /\ gupd[q].expected = gupd[p].returned
        /\ gupd[q].after.title = "B" /\ gupd[q].after.year = 2001

(***************************************************************************)
(* Properties of the shutdown coordinator.                                *)
(***************************************************************************)
\* the goroutines app.background started that have not called wg.Done yet
Outstanding == {h \in Handlers : tstate[h] \notin {"none", "exited"}}

\* C3: serve returns nil only in a state where the listener is closed, the
\* outstanding background-task count is zero and no registered task is still
\* running, however long the tasks take (also past the 5-second grace period).
C3_StoppedOnlyWhenDrained ==
    serveResult = "nil" =>
        /\ listener = "closed"
        /\ wg = 0
        /\ Outstanding = {}
        /\ InFlight = {}

\* serve has returned nil after every handler's task deregistered, one of them
\* after the grace period had elapsed
C3_Witness ==
    /\ serveResult = "nil"
    /\ graceElapsed /\ lateDone
    /\ \A h \in Handlers : tstate[h] = "exited"

\* C4: when srv.Shutdown returns an error, serve returns that error only after
\* the outstanding background-task count has reached zero.
C4_ErrorOnlyAfterDrain ==
    (mainpc = "returned" /\ shutdownResult \notin {"pending", "nil"}
        /\ serveResult = shutdownResult)
    => wg = 0

\* C5: a background task whose function panics calls wg.Done exactly once, the
\* panic does not leave the goroutine, and once every started task has ended
\* the counter is zero, so that wg.Wait can return.
C5_PanicStillDeregisters ==
    /\ ~crashed
    /\ \A h \in Handlers :
        tpanicked[h] => tdone[h] = (IF tstate[h] = "exited" THEN 1 ELSE 0)
    /\ (Outstanding = {}) => (wg = 0)

\* a task panicked and ended, and the drain wait of the shutdown goroutine
\* has returned after it
C5_Witness ==
    /\ \E h \in Handlers : tpanicked[h] /\ tstate[h] = "exited" /\ tdone[h] = 1
    /\ sgpc \in {"send.nil", "exited"}
    /\ lateDone

(***************************************************************************)
(* Properties of the authorization chain.                                 *)
(***************************************************************************)
\* the user in the context of request p came from a token and is not activated
Inactive(p) == auser[p].ptr = "GetForToken" /\ ~auser[p].activated

ErrorResponses ==
    {ServerError, InvalidAuthenticationToken, AuthenticationRequired,
     AccountInactive, NotPermitted}

\* C6: the handler wrapped in requirePermission(code, h) is invoked only for a
\* principal that is not anonymous and is activated, after a permission lookup
\* that succeeded and returned a set containing code; a request that ends
\* without invoking h has written exactly one response, an error, and nothing
\* is written before a request ends.
C6_HandlerOnlyWhenPermitted ==
    \A p \in Procs :
        /\ ainvoked[p] <= 1
        /\ ainvoked[p] = 1 =>
            /\ auser[p].ptr = "GetForToken"
            /\ ~IsAnonymous(auser[p])
            /\ auser[p].activated
            /\ Len(alookup[p]) = 1
            /\ alookup[p][1].ok
            /\ areq[p].code \in alookup[p][1].permissions
            /\ aresp[p] = <<HandlerResponse>>
        /\ (apc[p] = "done" /\ ainvoked[p] = 0) =>
            /\ Len(aresp[p]) = 1
            /\ aresp[p][1] \in ErrorResponses
        /\ apc[p] # "done" => aresp[p] = <<>>

\* one request reached its handler and another one, of a user without the
\* route's code, was refused
C6_Witness ==
    \E p, q \in Procs :
        /\ ainvoked[p] = 1 /\ apc[p] = "done"
        /\ apc[q] = "done" /\ aresp[q] = <<NotPermitted>> /\ ainvoked[q] = 0

\* C7: no request whose principal is anonymous, or is an authenticated user
\* that is not activated, has called Permissions.GetAllForUser.
C7_NoLookupForAnonymousOrInactive ==
    \A p \in Procs :
        (IsAnonymous(auser[p]) \/ Inactive(p)) => alookup[p] = <<>>

\* an anonymous request and a request of an inactive user have both ended
\* without a lookup
C7_Witness ==
    \E p, q \in Procs :
        /\ apc[p] = "done" /\ IsAnonymous(auser[p]) /\ alookup[p] = <<>>
        /\ apc[q] = "done" /\ Inactive(q) /\ alookup[q] = <<>>

\* C8: on a permission-gated route a request of an anonymous principal ends
\* with AuthenticationRequired (401) and a request of an authenticated but
\* inactive principal ends with AccountInactive (403), and with nothing else,
\* whatever the permissions table holds.
C8_FixedGateOrder ==
    \A p \in Procs :
        apc[p] = "done" =>
            /\ IsAnonymous(auser[p]) =>
                /\ aresp[p] = <<AuthenticationRequired>>
                /\ aresp[p][1].status = StatusUnauthorized
            /\ Inactive(p) =>
                /\ aresp[p] = <<AccountInactive>>
                /\ aresp[p][1].status = StatusForbidden

\* an inactive user holding the route's code was answered AccountInactive and
\* an anonymous request was answered AuthenticationRequired
C8_Witness ==
    /\ \E p \in Procs :
        /\ apc[p] = "done" /\ Inactive(p)
        /\ aresp[p] = <<AccountInactive>>
        /\ areq[p].code \in aperm[auser[p].id]
        /\ \E q \in Procs \ {p} :
                apc[q] = "done" /\ IsAnonymous(auser[q])
                /\ aresp[q] = <<AuthenticationRequired>>

(***************************************************************************)
(* Properties of the rate limiter.                                        *)
(***************************************************************************)
\* C9: of the requests one client sends with no time passing, starting with
\* the one that makes its entry, exactly the first LimiterBurst are admitted
\* (rateLimit writes nothing and calls next) and every later one is refused
\* with 429.
C9_BurstThenDeny ==
    \A c \in Clients :
        \A j \in 1 .. Len(lburst[c]) :
            /\ lburst[c][j].allowed <=> j <= LimiterBurst
            /\ lburst[c][j].status =
                    (IF j <= LimiterBurst THEN NoStatus ELSE StatusTooManyRequests)

\* with burst 4 and rate 2/s, five requests of one client at one instant got
\* allow, allow, allow, allow, deny
C9_Witness ==
    /\ LimiterBurst = 4 /\ LimiterRps = 2
    /\ \E c \in Clients :
        /\ Len(lburst[c]) = 5
        /\ [j \in 1 .. 5 |-> lburst[c][j].allowed] = <<TRUE, TRUE, TRUE, TRUE, FALSE>>
        /\ lburst[c][5].status = StatusTooManyRequests

\* C10: a client of whose requests every window holds at most LimiterBurst
\* requests more than the tokens refilled at LimiterRps over the window's
\* length has never been refused, whatever the registry went through.
C10_ConformingNeverDenied ==
    \A c \in Clients : lconform[c] => ~ldenied[c]

\* a conforming client whose entry was evicted and made again has used up the
\* whole burst of its second entry without being refused
C10_Witness ==
    \E c \in Clients :
        /\ lcreated[c] = 2
        /\ lconform[c] /\ ~ldenied[c]
        /\ lexcess[c] = LimiterBurst * TicksPerSecond
        /\ c \in DOMAIN clients
        /\ advance(clients[c].limiter, lnow) = 0

\* C11: an entry leaves the registry only in the sweep's range loop, and only
\* if its lastSeen is more than 3 minutes old; when the loop has ended, no
\* entry of the registry has a lastSeen more than 3 minutes old.
C11_SweepEviction ==
    [][ /\ \A c \in DOMAIN clients \ DOMAIN clients' :
            /\ spc = "range" /\ mu = MuSweep
            /\ lnow - clients[c].lastSeen > 3 * Minute
        /\ (spc = "range" /\ spc' = "Sleep") =>
            \A c \in DOMAIN clients' : lnow' - clients'[c].lastSeen <= 3 * Minute
      ]_vars

\* the sweep has just ended: it removed the entry of a client last seen more
\* than 3 minutes ago and kept the entry of one last seen exactly 3 minutes ago
C11_Witness ==
    /\ spc = "Sleep" /\ swake = lnow + Minute /\ mu = MuFree
    /\ \E c, d \in Clients :
        /\ lcreated[c] = 1 /\ c \notin DOMAIN clients
        /\ d \in DOMAIN clients /\ lnow - clients[d].lastSeen = 3 * Minute

\* C12: a request without an Authorization header gets the anonymous
\* principal and is passed on by authenticate: no credential lookup is made and
\* authenticate answers nothing itself, whatever route the request is for.
C12_EmptyHeaderIsAnonymous ==
    \A p \in Procs :
        (apc[p] # "idle" /\ areq[p].header = <<>>) =>
            /\ auser[p] = AnonymousUser
            /\ acred[p] = <<>>
            /\ aresp[p] \in {<<>>, <<AuthenticationRequired>>}
            /\ apc[p] = "done" => aresp[p] # <<>>

C12_Witness ==
    \E p, q \in Procs :
        /\ apc[p] = GateChain[1] /\ auser[p] = AnonymousUser /\ aresp[p] = <<>>
        /\ apc[q] = "done" /\ auser[q] = AnonymousUser /\ acred[q] = <<>>
        /\ areq[p].header = <<>> /\ areq[q].header = <<>>
        /\ areq[p].code # areq[q].code

\* the token texts of the model that consist of characters of the alphabet of
\* generateToken only
TokenAlphabetTexts == {"TA1", "TP2", "TX", "TS", "TB1", "TB2"}

WellFormedBearer(header) ==
    /\ Len(header) = 2 /\ header[1] = "Bearer"
    /\ header[2].len = 26 /\ header[2].text \in TokenAlphabetTexts

\* C13: the credential lookup is made only for a header that is exactly
\* "Bearer", one space and a token of 26 characters of the token alphabet;
\* every other non-empty header is answered 401 without a lookup.
C13_LookupOnlyForWellFormed ==
    \A p \in Procs :
        (apc[p] # "idle" /\ areq[p].header # <<>> /\ ~WellFormedBearer(areq[p].header)) =>
            /\ acred[p] = <<>>
            /\ aresp[p] = <<InvalidAuthenticationToken>>

\* the part of C13 that the code keeps: a header that is not "Bearer", one
\* space and a token of 26 bytes is answered 401 without a lookup
C13_WrongSchemeOrLengthNoLookup ==
    \A p \in Procs :
        ( /\ apc[p] # "idle" /\ areq[p].header # <<>>
          /\ \/ Len(areq[p].header) # 2
             \/ areq[p].header[1] # "Bearer"
             \/ areq[p].header[2].len # 26 ) =>
            /\ acred[p] = <<>>
            /\ aresp[p] = <<InvalidAuthenticationToken>>
            /\ auser[p] = NoUser

\* C14: the outcome of the credential lookup decides the request: not found
\* is answered 401 and an other error 500, both without passing the request
\* on; a found user becomes the principal of the request passed on.
C14_LookupOutcome ==
    \A p \in Procs :
        /\ Len(acred[p]) <= 1
        /\ acred[p] # <<>> =>
            LET call == acred[p][1]
            IN  /\ call.token = areq[p].header[2]
                /\ call.err = "ErrRecordNotFound" =>
                      /\ aresp[p] = <<InvalidAuthenticationToken>>
                      /\ auser[p] = NoUser /\ ainvoked[p] = 0 /\ apc[p] = "done"
                /\ call.err = "other" =>
                      /\ aresp[p] = <<ServerError>>
                      /\ auser[p] = NoUser /\ ainvoked[p] = 0 /\ apc[p] = "done"
                /\ call.err = "nil" =>
                      /\ auser[p] = LoadedUser(call.user_id)
                      /\ \E t \in tokens :
                            /\ t.hash = Sha256(call.token)
                            /\ t.scope = ScopeAuthentication
                            /\ t.user_id = call.user_id
                      /\ InvalidAuthenticationToken \notin {aresp[p][i] : i \in DOMAIN aresp[p]}

C14_Witness ==
    \E p, q \in Procs :
        /\ acred[p] = <<[token |-> TokenAuth2, err |-> "nil", user_id |-> 2]>>
        /\ auser[p].id = 2 /\ apc[p] = GateChain[1]
        /\ acred[q] = <<[token |-> TokenAuth1, err |-> "ErrRecordNotFound", user_id |-> 0]>>
        /\ gnow = MaxClock
        /\ aresp[q] = <<InvalidAuthenticationToken>>

\* C15: a request that presents the token returned by a successful login as
\* its bearer token is not answered 401: authenticate resolves it to the user
\* who logged in.
C15_IssuedTokenAccepted ==
    \A p \in Procs : \A u \in DOMAIN users :
        (apc[p] # "idle" /\ areq[p].header = <<"Bearer", HMACSign(u)>>) =>
            /\ InvalidAuthenticationToken \notin {aresp[p][i] : i \in DOMAIN aresp[p]}
            /\ auser[p] # NoUser /\ auser[p].id = u

\* C16: an update of a movie is answered 409 only if the id exists at write
\* time with a stored version other than the expected one; if the id does not
\* exist at write time (deleted since the handler's read) it is answered 404.
C16_ConflictOnlyIfPresent ==
    \A p \in Procs :
        (gupd[p].done /\ gupd[p].table = "movies") =>
            /\ gresp[p] = StatusConflict =>
                  (gupd[p].stored # 0 /\ gupd[p].stored # gupd[p].expected)
            /\ (gupd[p].stored = 0 /\ gupd[p].outcome # "error") =>
                  gresp[p] = StatusNotFound

\* the requests whose conditional update of this row succeeded
OkUpdates(table, id) ==
    {p \in Procs : gupd[p].done /\ gupd[p].table = table
                   /\ gupd[p].id = id /\ gupd[p].outcome = "ok"}

\* C17: a row that started with version V and on which N conditional updates
\* succeeded has the stored version V + N.
C17_VersionCountsUpdates ==
    /\ \A id \in DOMAIN movies :
          movies[id].version = InitMovie.version + Cardinality(OkUpdates("movies", id))
    /\ \A id \in DOMAIN users :
          users[id].version = InitUsers[id].version + Cardinality(OkUpdates("users", id))

\* two updates succeeded on one movie
C17_Witness ==
    /\ \E id \in DOMAIN movies :
          Cardinality(OkUpdates("movies", id)) = 2
          /\ movies[id].version = InitMovie.version + 2

\* C20: the stored version of a row changes only in a successful conditional
\* update, by exactly one, and that update leaves the new version in the
\* caller's copy; an update answered with a conflict changes neither the stored
\* rows nor the caller's copy.
C20_VersionStep ==
    [][ /\ \A id \in DOMAIN movies \cap DOMAIN movies' :
              movies'[id] # movies[id] =>
                  /\ movies'[id].version = movies[id].version + 1
                  /\ \E p \in Procs :
                        /\ gupd'[p] # gupd[p] /\ gupd'[p].outcome = "ok"
                        /\ gupd'[p].table = "movies" /\ gupd'[p].id = id
                        /\ gupd'[p].expected = movies[id].version
                        /\ gloc'[p].version = movies'[id].version
        /\ \A id \in DOMAIN users :
              users'[id] # users[id] =>
                  /\ users'[id].version = users[id].version + 1
                  /\ \E p \in Procs :
                        /\ gupd'[p] # gupd[p] /\ gupd'[p].outcome = "ok"
                        /\ gupd'[p].table = "users" /\ gupd'[p].id = id
                        /\ gupd'[p].expected = users[id].version
                        /\ gloc'[p].version = users'[id].version
        /\ \A p \in Procs :
              (gupd'[p] # gupd[p] /\ gupd'[p].outcome = "conflict") =>
                  /\ movies' = movies /\ users' = users
                  /\ gloc'[p] = gloc[p]
                  /\ gloc'[p].version = gupd'[p].expected
      ]_vars

\* one update of a movie succeeded and left the caller with the new version,
\* another one of the same movie was answered with a conflict
C20_Witness ==
    \E p, q \in Procs :
        /\ gupd[p].done /\ gupd[p].table = "movies" /\ gupd[p].outcome = "ok"
        /\ gloc[p].version = gupd[p].expected + 1
        /\ gupd[p].id \in DOMAIN movies
        /\ movies[gupd[p].id].version = gloc[p].version
        /\ gupd[q].done /\ gupd[q].table = "movies" /\ gupd[q].outcome = "conflict"
        /\ gupd[q].id = gupd[p].id
        /\ gloc[q].version = gupd[q].expected /\ gupd[q].stored = gupd[q].expected + 1

(***************************************************************************)
(* Properties of the middleware chain.                                    *)
(***************************************************************************)
\* C18: with the limiter disabled every request is passed to the next handler:
\* none is answered 429 and the registry of clients stays empty.
C18_DisabledPassesAll ==
    ~lenabled =>
        /\ clients = <<>>
        /\ mu = MuFree
        /\ \A p \in Procs : lpc[p] \in {"idle", "next"}
        /\ \A c \in Clients : lcreated[c] = 0 /\ ~ldenied[c] /\ lburst[c] = <<>>

\* more requests than the burst were taken with the limiter disabled, at one
\* instant, and the last ones are with the next handler
C18_Witness ==
    /\ ~lenabled
    /\ lcount > LimiterBurst
    /\ lnow = 0
    /\ \A p \in Procs : lpc[p] = "next"
    /\ clients = <<>>

\* C19: a request passes the throttle, then principal resolution, then the
\* gates, then the handler; a request answered 429 causes no credential
\* lookup, no permission lookup and no handler invocation, and a credential
\* lookup is made only for a request the throttle admitted.
C19_StageOrder ==
    \A p \in Procs :
        /\ lpc[p] # "next" =>
              /\ apc[p] = "idle" /\ auser[p] = NoUser /\ aresp[p] = <<>>
              /\ acred[p] = <<>> /\ alookup[p] = <<>> /\ ainvoked[p] = 0
        /\ acred[p] # <<>> => lpc[p] = "next"
        /\ apc[p] \notin {"idle", "done"} => auser[p] # NoUser
        /\ alookup[p] # <<>> => (auser[p] # NoUser /\ ~IsAnonymous(auser[p]))
        /\ ainvoked[p] > 0 =>
              /\ Len(alookup[p]) = 1 /\ Len(acred[p]) = 1
              /\ acred[p][1].err = "nil"

\* one request was answered 429 while an admitted one went through the
\* credential lookup, the permission lookup and the handler
C19_Witness ==
    \E p, q \in Procs :
        /\ lpc[p] = "429" /\ apc[p] = "idle" /\ acred[p] = <<>>
        /\ lpc[q] = "next" /\ apc[q] = "done"
        /\ Len(acred[q]) = 1 /\ Len(alookup[q]) = 1 /\ ainvoked[q] = 1

(***************************************************************************)
(* Properties of the handler of rateLimit, statement by statement.        *)
(***************************************************************************)
\* the requests of client c admitted at the present instant
Admitted(c) == {j \in DOMAIN lburst[c] : lburst[c][j].allowed}

\* C21: of the requests one client sends at one instant, handled by
\* concurrent goroutines, exactly the first min(N, k) to take the lock are
\* admitted, k being the tokens of its bucket: every admission takes one token
\* of the one entry the client has, no token is used twice, and the entry of
\* an unseen client is made once.
C21_SerializedAdmission ==
    \A c \in Clients :
        /\ c \in DOMAIN clients =>
              advance(clients[c].limiter, lnow) + TicksPerSecond * Cardinality(Admitted(c))
                  = LimiterBurst * TicksPerSecond
        /\ c \notin DOMAIN clients => lburst[c] = <<>>
        /\ \A j \in DOMAIN lburst[c] : lburst[c][j].allowed <=> j <= LimiterBurst
        /\ lnow <= 3 * Minute => lcreated[c] <= 1

\* of five requests of one client at one instant four were admitted, and two
\* of them are in the handler at once, one admitted and one refused
C21_Witness ==
    \E c \in Clients :
        /\ Len(lburst[c]) = LimiterBurst + 1
        /\ Cardinality(Admitted(c)) = LimiterBurst
        /\ lcreated[c] = 1
        /\ \E p, q \in Procs : lpc[p] = "429" /\ lpc[q] = "next"

\* the positions of the handler at which it reads or writes the registry
RegistryAccess == {"found", "insert", "lastSeen", "Allow"}

\* C22: the handler reads and writes the registry, and the sweep deletes from
\* it, only while holding the mutex; the handler has released the mutex when it
\* writes the 429 response or calls the next handler; a goroutine that waits
\* for the mutex gets it.
C22_MutexDiscipline ==
    /\ [](/\ \A p \in Procs :
              /\ lpc[p] \in RegistryAccess => mu = MuHandler(p)
              /\ lpc[p] \in {"idle", "Lock", "next", "429"} => mu # MuHandler(p)
              /\ lpc[p] # "panic"
          /\ spc = "range" <=> mu = MuSweep)
    /\ \A p \in Procs : (lpc[p] = "Lock") ~> (lpc[p] = "found")
    /\ (spc = "Lock") ~> (spc = "range")

\* an admitted request has released the mutex and is with the next handler,
\* the sweep goroutine holds the mutex and another request waits for it
C22_Witness ==
    \E p, q \in Procs :
        /\ lpc[p] = "next" /\ lpc[q] = "Lock"
        /\ mu = MuSweep /\ spc = "range"

\* C23: with the limiter enabled, a request that passes through the handler
\* of rateLimit leaves its client's entry with lastSeen = now, whether it is
\* admitted or denied; a denied request changes nothing else: the limiter of
\* its client (the token count) is as before, and so is every other client's
\* entry. So the sweep, which deletes an entry only when its lastSeen is more
\* than three minutes old, deletes no client whose latest request, denied or
\* not, came within the last three minutes.
C23_LastSeenOnEveryRequest ==
    [][ /\ \A p \in Procs :
            (lpc[p] = "locked" /\ lpc'[p] = "idle") =>
                LET ip == lip[p]
                    before == clientFor(ip, lnow)
                IN  /\ DOMAIN clients' = DOMAIN clients \cup {ip}
                    /\ clients'[ip].lastSeen = lnow
                    /\ \A c \in DOMAIN clients \ {ip} : clients'[c] = clients[c]
                    /\ ~AllowOk(before.limiter, lnow) =>
                            /\ ip \in DOMAIN clients
                            /\ clients'[ip].limiter = clients[ip].limiter
                            /\ lburst'[ip] # <<>> =>
                                 lburst'[ip][Len(lburst'[ip])].status = StatusTooManyRequests
        /\ \A c \in DOMAIN clients :
            c \notin DOMAIN clients' => lnow - clients[c].lastSeen > 3 * Minute
      ]_vars

\* a client was denied after time had passed since its last admitted request:
\* its lastSeen is the time of the denial, its limiter is as the admitted
\* request left it, and another client's entry is in the registry
C23_Witness ==
    \E c \in Clients : \E d \in Clients \ {c} :
        /\ ldenied[c]
        /\ c \in DOMAIN clients
        /\ d \in DOMAIN clients
        /\ lnow > 0
        /\ clients[c].lastSeen = lnow
        /\ clients[c].limiter.last < lnow
        /\ clients[c].limiter.tokens < TicksPerSecond

\* three minutes at the configured rate refill a whole burst
EvictionRefills == tokensFromDuration(lconfig.rps, 3 * Minute) >= lconfig.burst * TicksPerSecond

\* the request that goroutine p has in the handler of rateLimit is decided the
\* same way on the registry with the sweep and on the one without
SameOutcome(p) ==
    AllowOk(clientFor(lip[p], lnow).limiter, lnow) <=> AllowOk(keptFor(lip[p], lnow), lnow)

\* C30 (as stated): for every configured rate R and burst B, a request is
\* admitted by the registry with the sweep exactly when it is admitted by a
\* registry from which no entry is ever deleted.
C30_EvictionInvisible ==
    [][\A p \in Procs : (lpc[p] = "locked" /\ lpc'[p] = "idle") => SameOutcome(p)]_vars

\* C30 (amended): for every configured rate R and burst B with R * 180 s >= B,
\* a request is admitted by the registry with the sweep exactly when it is
\* admitted by a registry from which no entry is ever deleted.
C30_EvictionInvisibleWhenRefilled ==
    [][\A p \in Procs :
        (lpc[p] = "locked" /\ lpc'[p] = "idle" /\ EvictionRefills) => SameOutcome(p)]_vars

\* under the default configuration a client used up its burst, its entry was
\* deleted by the sweep and made again by its next request, which was admitted
\* on both registries and left both buckets one token short of full
C30_Witness ==
    \E c \in Clients :
        /\ EvictionRefills
        /\ lcreated[c] >= 2
        /\ c \in DOMAIN clients
        /\ c \in DOMAIN lkept
        /\ clients[c].lastSeen = lnow
        /\ lkept[c].tokens = (lconfig.burst - 1) * TicksPerSecond
        /\ clients[c].limiter.tokens = lkept[c].tokens
        /\ lcount = MaxRequests

\* C24: the counter of app.wg equals the number of goroutines started with
\* app.background that have not finished; it is raised by one in the step
\* that starts the goroutine (wg.Add(1) precedes the go statement), lowered
\* by one exactly once per goroutine, when it ends, and never negative.
C24_CounterIsOutstanding ==
    /\ [](/\ wg = Cardinality(Outstanding)
          /\ wg >= 0
          /\ \A h \in Handlers : tdone[h] = (IF tstate[h] = "exited" THEN 1 ELSE 0))
    /\ [][\A h \in Handlers :
            /\ (tstate[h] = "none" /\ tstate'[h] # "none") =>
                    (tstate'[h] = "fn" /\ wg' = wg + 1)
            /\ (tstate[h] # "exited" /\ tstate'[h] = "exited") =>
                    (wg' = wg - 1 /\ tdone'[h] = tdone[h] + 1)
            /\ (tstate'[h] = tstate[h]
                    \/ (tstate[h] = "none" /\ tstate'[h] # "none")
                    \/ (tstate[h] # "exited" /\ tstate'[h] = "exited")
                    \/ wg' = wg)
       ]_vars

\* one goroutine has ended (one wg.Done), another is still running its
\* function: the counter is one
C24_Witness ==
    /\ \E h \in Handlers : tstate[h] = "exited" /\ tdone[h] = 1
    /\ \E h \in Handlers : tstate[h] = "fn"
    /\ wg = 1

\* the states of the coordinator: Draining once the shutdown goroutine has
\* taken the signal, Stopped once serve has returned
Lifecycle ==
    IF mainpc = "returned" THEN 2 ELSE IF sgpc # "quit" THEN 1 ELSE 0

\* the coordinator never moves back, either signal starts the draining, and
\* after a signal serve returns
C25_LifecycleAndServeReturns ==
    /\ [][Lifecycle' >= Lifecycle]_vars
    /\ [](sgpc # "quit" => signalled \in {"SIGINT", "SIGTERM"})
    /\ \A s \in {"SIGINT", "SIGTERM"} : (signalled = s) ~> (mainpc = "returned")
    /\ (mainpc = "recv") ~> (mainpc = "returned")

\* C25: after SIGINT or SIGTERM the coordinator moves Running -> Draining ->
\* Stopped and never back; when every background task ends, serve returns;
\* and neither serve nor the shutdown goroutine stays blocked on the channel
\* shutdownError: a receive or a send that has begun is completed, whether
\* srv.Shutdown returned an error or not (runs in which ListenAndServe failed
\* on its own, without a shutdown, are left aside).
C25_NoBlockOnShutdownError ==
    /\ C25_LifecycleAndServeReturns
    /\ (sgpc = "send.err" /\ serveResult # "listen error") ~> (sgpc = "wg.Wait")
    /\ (sgpc = "send.nil" /\ serveResult # "listen error") ~> (sgpc = "exited")

\* the requests to updateUserPasswordHandler that presented this token and
\* were answered 200
ResetSucceeded(token) ==
    { p \in Procs :
        /\ greq[p].handler = "updateUserPassword"
        /\ greq[p].token = token
        /\ gresp[p] = StatusOK }

\* C27: of the updateUserPasswordHandler requests that present the same
\* password-reset token, at most one is answered with success, however their
\* statements (GetForToken, Update, DeleteAllForUser) interleave.
C27_ResetTokenOnce ==
    \A token \in TokenPlaintexts : Cardinality(ResetSucceeded(token)) <= 1

\* an unexpired row of the tokens table for this plaintext, with this scope
\* and this user
StoredFor(token, scope, userID) ==
    \E t \in tokens :
        /\ t.hash = Sha256(token)
        /\ t.scope = scope
        /\ t.user_id = userID
        /\ t.expiry > gnow

\* C26: a token is accepted only for the purpose it was issued for.  The
\* step in which authenticate resolves a user, activateUserHandler goes on to
\* activate one or updateUserPasswordHandler goes on to set a password finds
\* an unexpired row for the presented token and that user whose scope is
\* authentication, activation or password-reset respectively; so a token
\* stored with scope activation or password-reset resolves no user in
\* authenticate.
C26_ScopeSeparation ==
    [][\A p \in Procs :
        /\ (apc[p] = "idle" /\ auser'[p].ptr = "GetForToken") =>
                /\ StoredFor(areq'[p].header[2], ScopeAuthentication, auser'[p].id)
                /\ \A t \in tokens :
                      t.hash = Sha256(areq'[p].header[2]) => t.scope = ScopeAuthentication
        /\ (gpc[p] = "idle" /\ gpc'[p] = "activate.Update") =>
                StoredFor(greq'[p].token, ScopeActivation, gloc'[p].id)
        /\ (gpc[p] = "idle" /\ gpc'[p] = "password.Update") =>
                StoredFor(greq'[p].token, ScopePasswordReset, gloc'[p].id)
      ]_vars

\* before any token has expired, the activation token was presented to
\* authenticate and looked up in vain (401), and the same token was refused
\* by updateUserPasswordHandler (422)
C26_Witness ==
    \E p \in Procs : \E q \in Procs \ {p} :
        /\ gnow = 0
        /\ apc[p] = "done"
        /\ areq[p].header = <<"Bearer", TokenActivation1>>
        /\ aresp[p] = <<InvalidAuthenticationToken>>
        /\ Len(acred[p]) = 1
        /\ acred[p][1].err = "ErrRecordNotFound"
        /\ auser[p] = NoUser
        /\ greq[q].handler = "updateUserPassword"
        /\ greq[q].token = TokenActivation1
        /\ gresp[q] = StatusUnprocessableEntity

\* the requests made with the token of a user, i.e. of a user made by
\* registerUserHandler (the users of InitUsers registered before the model
\* starts)
ByUser == {p \in Procs : auser[p].ptr = "GetForToken"}

\* C28: no operation of the API grants movies:write.  Every user holds at
\* most movies:read, and exactly movies:read once registerUserHandler has
\* answered 202; a request of such a user to a route that requires
\* movies:write never gets to its handler (it is answered AccountInactive
\* before the activation and NotPermitted after it, or 500 when the
\* permission lookup fails), and a handler runs only for a movies:read route
\* and a user whose activation was stored.
C28_NoWriteForRegistered ==
    /\ \A u \in DOMAIN aperm : aperm[u] \subseteq {"movies:read"}
    /\ \A u \in DOMAIN InitUsers : aperm[u] = {"movies:read"}
    /\ \A p \in Procs :
        (greq[p].handler = "registerUser" /\ gresp[p] = StatusAccepted) =>
            /\ gloc[p].id \in DOMAIN users
            /\ gloc[p].id \in DOMAIN aperm
            /\ aperm[gloc[p].id] = {"movies:read"}
    /\ \A p \in ByUser :
        /\ areq[p].code = "movies:write" =>
            /\ ainvoked[p] = 0
            /\ apc[p] # "next"
            /\ apc[p] = "done" =>
                 \/ aresp[p] = <<AccountInactive>> /\ ~auser[p].activated
                 \/ aresp[p] = <<NotPermitted>> /\ auser[p].activated
                 \/ aresp[p] = <<ServerError>> /\ auser[p].activated
        /\ (ainvoked[p] > 0 \/ apc[p] = "next") =>
            /\ areq[p].code = "movies:read"
            /\ auser[p].activated
            /\ users[auser[p].id].activated

\* a user was registered (202, holding movies:read) and, not yet activated,
\* asked for a movies:write route with an authentication token: the answer is
\* AccountInactive and no handler ran
C28_Witness ==
    \E p \in Procs : \E q \in Procs \ {p} :
        /\ greq[p].handler = "registerUser"
        /\ gresp[p] = StatusAccepted
        /\ aperm[gloc[p].id] = {"movies:read"}
        /\ apc[q] = "done"
        /\ auser[q].ptr = "GetForToken"
        /\ auser[q].id = gloc[p].id
        /\ areq[q].code = "movies:write"
        /\ aresp[q] = <<AccountInactive>>
        /\ ainvoked[q] = 0

\* the header is "Bearer <token>" with a token of 26 bytes for which the tokens
\* table holds an unexpired row of scope authentication
ValidBearer(header) ==
    /\ Len(header) = 2
    /\ header[1] = "Bearer"
    /\ header[2].len = 26
    /\ \E u \in DOMAIN users : StoredFor(header[2], ScopeAuthentication, u)

\* C29: a request whose Authorization header is not empty and is malformed,
\* or carries a token that is unknown or expired, gets no further than
\* authenticate on any route, gated or not: it is answered 401 (500 when the
\* lookup of a well-formed token fails in storage), no user is resolved and
\* no handler runs; only requests with an empty header or a valid token are
\* passed on to the router.
C29_BadHeaderStopsAtAuthenticate ==
    /\ [][\A p \in Procs :
            (apc[p] = "idle" /\ apc'[p] # "idle") =>
                LET header == areq'[p].header
                IN  /\ (header # <<>> /\ ~ValidBearer(header)) =>
                            /\ apc'[p] = "done"
                            /\ auser'[p] = NoUser
                            /\ \/ aresp'[p] = <<InvalidAuthenticationToken>>
                               \/ /\ aresp'[p] = <<ServerError>>
                                  /\ acred'[p] # <<>>
                                  /\ acred'[p][Len(acred'[p])].err = "other"
                    /\ apc'[p] # "done" => (header = <<>> \/ ValidBearer(header))
       ]_vars
    /\ [](\A p \in Procs :
            (apc[p] # "idle" /\ (ainvoked[p] > 0 \/ apc[p] \notin {"idle", "done"})) =>
                \/ areq[p].header = <<>> /\ auser[p] = AnonymousUser
                \/ auser[p].ptr = "GetForToken")

\* on the healthcheck route, which has no gate, a request with an unknown
\* token was answered 401 without reaching the handler, while a request
\* without an Authorization header ran the handler
C29_Witness ==
    \E p \in Procs : \E q \in Procs \ {p} :
        /\ apc[p] = "done"
        /\ areq[p].code = "healthcheck"
        /\ areq[p].header = <<"Bearer", TokenUnknown>>
        /\ aresp[p] = <<InvalidAuthenticationToken>>
        /\ ainvoked[p] = 0
        /\ apc[q] = "done"
        /\ areq[q].code = "healthcheck"
        /\ areq[q].header = <<>>
        /\ ainvoked[q] = 1
        /\ aresp[q] = <<HandlerResponse>>

=========================================================================
